---- MODULE Spec2Model ----
(***************************************************************************)
(* Model of the incident importer (src/src/import/importer.ts, the upsert  *)
(* version of class Importer), of the mappers it composes                  *)
(* (src/src/mapping/mappers.ts) and of the pacing / retry loop of the API  *)
(* client (src/src/api/client.ts).                                         *)
(*                                                                         *)
(* JavaScript runs one callback at a time: a worker's code between two     *)
(* awaits is one atomic step.  The actions below are exactly those steps.  *)
(***************************************************************************)
EXTENDS Integers, Sequences, FiniteSets, TLC

(***************************************************************************)
(* Bounds of the model.                                                    *)
(***************************************************************************)
MaxBundles == 2     \* longest bundle stream
MaxRuns == 2        \* import runs in one behaviour
MaxWorkers == 2     \* largest --concurrency value

(***************************************************************************)
(* Values.  undefined is a record of its own; a string id that is absent   *)
(* is "" (both are falsy in the source's truthiness tests).                *)
(***************************************************************************)
MinRequestInterval == 100   \* private minRequestInterval: number = 100

Undefined == [undefined |-> TRUE]
NoId == ""

\* String.prototype.toLowerCase on the names the model uses.
toLowerCase(s) ==
  CASE s = "Critical" -> "critical"
    [] s = "Major" -> "major"
    [] s = "MAJOR" -> "major"
    [] s = "Minor" -> "minor"
    [] s = "P1" -> "p1"
    [] s = "Closed" -> "closed"
    [] s = "CLOSED" -> "closed"
    [] s = "Triage" -> "triage"
    [] s = "Done" -> "done"
    [] s = "Reporter" -> "reporter"
    [] s = "Lead" -> "lead"
    [] s = "LEAD" -> "lead"
    [] s = "Scribe" -> "scribe"
    [] s = "Default" -> "default"
    [] s = "Security" -> "security"
    [] s = "SECURITY" -> "security"
    [] s = "Ann@x.io" -> "ann@x.io"
    [] s = "Low" -> "low"
    [] s = "Sev" -> "sev"
    [] s = "Unknown" -> "unknown"
    [] s = "Investigating" -> "investigating"
    [] s = "Bob@Y.io" -> "bob@y.io"
    [] s = "BOB@y.io" -> "bob@y.io"
    [] s = "Reported" -> "reported"
    [] s = "REPORTED" -> "reported"
    [] s = "Fixed" -> "fixed"
    [] s = "Team" -> "team"
    [] s = "TEAM" -> "team"
    [] s = "Notes" -> "notes"
    [] s = "Region" -> "region"
    [] s = "Alpha" -> "alpha"
    [] s = "ALPHA" -> "alpha"
    [] s = "Beta" -> "beta"
    [] s = "BETA" -> "beta"
    [] s = "Gamma" -> "gamma"
    [] OTHER -> s

Abs(n) == IF n < 0 THEN -n ELSE n

(***************************************************************************)
(* The target Mapping Context (buildMappingContext): each Map is the       *)
(* sequence of its values in insertion order, keyed by the id field.       *)
(***************************************************************************)
TargetContext ==
  [ severities |-> << [id |-> "sevC", name |-> "Critical", rank |-> 1],
                      [id |-> "sevM", name |-> "Major", rank |-> 2],
                      [id |-> "sevN", name |-> "Minor", rank |-> 3] >>,
    statuses   |-> << [id |-> "stT", name |-> "Triage", category |-> "triage"],
                      [id |-> "stC", name |-> "Closed", category |-> "closed"] >>,
    types      |-> << [id |-> "tyD", name |-> "Default", private_incidents_only |-> FALSE],
                      [id |-> "tyS", name |-> "Security", private_incidents_only |-> TRUE] >>,
    roles      |-> << [id |-> "roR", name |-> "Reporter", role_type |-> "reporter"],
                      [id |-> "roL", name |-> "Lead", role_type |-> "lead"] >>,
    users      |-> << [id |-> "usA", email |-> "ann@x.io", slack_user_id |-> "U1"] >> ]

\* Map.get(id) on a Map held as a sequence of entities.
MapGet(map, id) ==
  IF \E i \in 1..Len(map) : map[i].id = id
  THEN map[CHOOSE i \in 1..Len(map) : map[i].id = id]
  ELSE Undefined

\* The first of a set of indexes of a sequence (the first match of a
\* `for ... of` loop that returns on a match), 0 if the set is empty.
FirstIndex(indexes) ==
  IF indexes = {} THEN 0 ELSE CHOOSE i \in indexes : \A j \in indexes : i <= j

(***************************************************************************)
(* Entity resolvers (mappers.ts).  A MappingResult is                      *)
(* [value, warnings]; an absent value is NoId (or << >> for lists).        *)
(***************************************************************************)

\* Array.prototype.sort((a, b) => a.rank - b.rank): stable insertion sort.
RECURSIVE InsertByRank(_, _)
InsertByRank(sorted, e) ==
  IF sorted = << >> THEN << e >>
  ELSE IF sorted[Len(sorted)].rank <= e.rank THEN Append(sorted, e)
  ELSE Append(InsertByRank(SubSeq(sorted, 1, Len(sorted) - 1), e), sorted[Len(sorted)])

RECURSIVE SortByRank(_)
SortByRank(seq) ==
  IF seq = << >> THEN << >>
  ELSE InsertByRank(SortByRank(SubSeq(seq, 1, Len(seq) - 1)), seq[Len(seq)])

\* A reduce that takes the later element on a tie.
RECURSIVE ClosestByRankLastOnTie(_, _)
ClosestByRankLastOnTie(seq, r) ==
  IF Len(seq) = 1 THEN seq[1]
  ELSE LET prev == ClosestByRankLastOnTie(SubSeq(seq, 1, Len(seq) - 1), r)
           curr == seq[Len(seq)]
       IN IF Abs(curr.rank - r) <= Abs(prev.rank - r) THEN curr ELSE prev

\* reduce((prev, curr) => |curr.rank - r| < |prev.rank - r| ? curr : prev)
\* over a non-empty array, without initial value.
RECURSIVE ClosestByRank(_, _)
ClosestByRank(seq, r) ==
  IF Len(seq) = 1 THEN seq[1]
  ELSE LET prev == ClosestByRank(SubSeq(seq, 1, Len(seq) - 1), r)
           curr == seq[Len(seq)]
       IN IF Abs(curr.rank - r) < Abs(prev.rank - r) THEN curr ELSE prev

\* mapSeverity throws (reduce of an empty array) when the name matches
\* nothing and the target has no severity at all.
mapSeverityThrows(sourceSeverity, targetSeverities) ==
  /\ sourceSeverity # Undefined
  /\ targetSeverities = << >>

\* A mapSeverity that compares the names as they are written.
mapSeverityCaseSensitive(sourceSeverity, targetSeverities) ==
  IF sourceSeverity = Undefined THEN [value |-> NoId, warnings |-> << >>]
  ELSE
    LET SameName(s) == s.name = sourceSeverity.name
        i == FirstIndex({k \in 1..Len(targetSeverities) : SameName(targetSeverities[k])})
    IN IF i # 0 THEN [value |-> targetSeverities[i].id, warnings |-> << >>]
       ELSE LET closest == ClosestByRank(SortByRank(targetSeverities), sourceSeverity.rank)
            IN [value |-> closest.id,
                warnings |-> << "Severity not found, mapped to " \o closest.name \o " by rank" >>]

mapSeverity(sourceSeverity, targetSeverities) ==
  IF sourceSeverity = Undefined THEN [value |-> NoId, warnings |-> << >>]
  ELSE
    LET SameName(s) == toLowerCase(s.name) = toLowerCase(sourceSeverity.name)
        i == FirstIndex({k \in 1..Len(targetSeverities) : SameName(targetSeverities[k])})
    IN IF i # 0 THEN [value |-> targetSeverities[i].id, warnings |-> << >>]
       ELSE LET closest == ClosestByRank(SortByRank(targetSeverities), sourceSeverity.rank)
            IN [value |-> closest.id,
                warnings |-> << "Severity not found, mapped to " \o closest.name \o " by rank" >>]

\* A mapStatus that tries the category before the name alone.
mapStatusCategoryFirst(sourceStatus, targetStatuses) ==
  IF sourceStatus = Undefined THEN [value |-> NoId, warnings |-> << >>]
  ELSE
    LET SameName(s) == toLowerCase(s.name) = toLowerCase(sourceStatus.name)
        SameCat(s) == s.category = sourceStatus.category
        Exact(s) == SameName(s) /\ SameCat(s)
        i1 == FirstIndex({k \in 1..Len(targetStatuses) : Exact(targetStatuses[k])})
        i2 == FirstIndex({k \in 1..Len(targetStatuses) : SameName(targetStatuses[k])})
        i3 == FirstIndex({k \in 1..Len(targetStatuses) : SameCat(targetStatuses[k])})
    IN IF i1 # 0 THEN [value |-> targetStatuses[i1].id, warnings |-> << >>]
       ELSE IF i3 # 0 THEN [value |-> targetStatuses[i3].id,
                            warnings |-> << "Status not found, mapped to " \o targetStatuses[i3].name \o " by category" >>]
       ELSE IF i2 # 0 THEN [value |-> targetStatuses[i2].id,
                            warnings |-> << "Status found but category differs" >>]
       ELSE [value |-> NoId, warnings |-> << "Status could not be mapped" >>]

mapStatus(sourceStatus, targetStatuses) ==
  IF sourceStatus = Undefined THEN [value |-> NoId, warnings |-> << >>]
  ELSE
    LET SameName(s) == toLowerCase(s.name) = toLowerCase(sourceStatus.name)
        SameCat(s) == s.category = sourceStatus.category
        Exact(s) == SameName(s) /\ SameCat(s)
        i1 == FirstIndex({k \in 1..Len(targetStatuses) : Exact(targetStatuses[k])})
        i2 == FirstIndex({k \in 1..Len(targetStatuses) : SameName(targetStatuses[k])})
        i3 == FirstIndex({k \in 1..Len(targetStatuses) : SameCat(targetStatuses[k])})
    IN IF i1 # 0 THEN [value |-> targetStatuses[i1].id, warnings |-> << >>]
       ELSE IF i2 # 0 THEN [value |-> targetStatuses[i2].id,
                            warnings |-> << "Status found but category differs" >>]
       ELSE IF i3 # 0 THEN [value |-> targetStatuses[i3].id,
                            warnings |-> << "Status not found, mapped to " \o targetStatuses[i3].name \o " by category" >>]
       ELSE [value |-> NoId, warnings |-> << "Status could not be mapped" >>]

mapIncidentType(sourceType, targetTypes) ==
  IF sourceType = Undefined THEN [value |-> NoId, warnings |-> << >>]
  ELSE
    LET SameName(t) == toLowerCase(t.name) = toLowerCase(sourceType.name)
        i == FirstIndex({k \in 1..Len(targetTypes) : SameName(targetTypes[k])})
    IN IF i # 0 THEN [value |-> targetTypes[i].id, warnings |-> << >>]
       ELSE [value |-> NoId, warnings |-> << "Incident type not found in target" >>]

\* A mapUser that tries the Slack id before the email.
mapUserSlackFirst(sourceUser, targetUsers) ==
  IF sourceUser = Undefined THEN [value |-> NoId, warnings |-> << >>]
  ELSE
    LET SameEmail(u) == toLowerCase(u.email) = toLowerCase(sourceUser.email)
        SameSlack(u) == u.slack_user_id = sourceUser.slack_user_id
        i1 == IF sourceUser.email # "" THEN FirstIndex({k \in 1..Len(targetUsers) : SameEmail(targetUsers[k])}) ELSE 0
        i2 == IF sourceUser.slack_user_id # "" THEN FirstIndex({k \in 1..Len(targetUsers) : SameSlack(targetUsers[k])}) ELSE 0
    IN IF i2 # 0 THEN [value |-> targetUsers[i2].id,
                       warnings |-> << "User mapped by Slack ID (email not matched)" >>]
       ELSE IF i1 # 0 THEN [value |-> targetUsers[i1].id, warnings |-> << >>]
       ELSE [value |-> NoId, warnings |-> << "User not found in target (may need to invite them)" >>]

\* A source user is [id, email, slack_user_id]; an absent email or Slack id is "".
mapUser(sourceUser, targetUsers) ==
  IF sourceUser = Undefined THEN [value |-> NoId, warnings |-> << >>]
  ELSE
    LET SameEmail(u) == toLowerCase(u.email) = toLowerCase(sourceUser.email)
        SameSlack(u) == u.slack_user_id = sourceUser.slack_user_id
        i1 == IF sourceUser.email # "" THEN FirstIndex({k \in 1..Len(targetUsers) : SameEmail(targetUsers[k])}) ELSE 0
        i2 == IF sourceUser.slack_user_id # "" THEN FirstIndex({k \in 1..Len(targetUsers) : SameSlack(targetUsers[k])}) ELSE 0
    IN IF i1 # 0 THEN [value |-> targetUsers[i1].id, warnings |-> << >>]
       ELSE IF i2 # 0 THEN [value |-> targetUsers[i2].id,
                            warnings |-> << "User mapped by Slack ID (email not matched)" >>]
       ELSE [value |-> NoId, warnings |-> << "User not found in target (may need to invite them)" >>]

\* A source assignment is [incident_role_id, role, assignee]; role is the
\* definition carried by the export (or Undefined), assignee a user or Undefined.
\* A mapped assignment is [incident_role_id, assignee] with assignee a target
\* user id or NoId (role with no assignee).
RECURSIVE mapRoleAssignments(_, _, _, _)
mapRoleAssignments(sourceAssignments, sourceRoles, targetRoles, targetUsers) ==
  IF sourceAssignments = << >> THEN [value |-> << >>, warnings |-> << >>]
  ELSE
    LET n == Len(sourceAssignments)
        rest == mapRoleAssignments(SubSeq(sourceAssignments, 1, n - 1),
                                   sourceRoles, targetRoles, targetUsers)
        assignment == sourceAssignments[n]
        sourceRole == IF assignment.role # Undefined THEN assignment.role
                      ELSE MapGet(sourceRoles, assignment.incident_role_id)
    IN IF sourceRole = Undefined
       THEN [rest EXCEPT !.warnings = Append(@, "Source role definition not found")]
       ELSE
         LET SameName(r) == toLowerCase(r.name) = toLowerCase(sourceRole.name)
             i == FirstIndex({k \in 1..Len(targetRoles) : SameName(targetRoles[k])})
         IN IF i = 0
            THEN [rest EXCEPT !.warnings = Append(@, "Role not found in target")]
            ELSE IF assignment.assignee # Undefined
            THEN LET userResult == mapUser(assignment.assignee, targetUsers)
                 IN IF userResult.value # NoId
                    THEN [rest EXCEPT !.value = Append(@, [incident_role_id |-> targetRoles[i].id,
                                                            assignee |-> userResult.value])]
                    ELSE [rest EXCEPT !.warnings = @ \o userResult.warnings]
            ELSE [rest EXCEPT !.value = Append(@, [incident_role_id |-> targetRoles[i].id,
                                                    assignee |-> NoId])]

\* A source timestamp value is [incident_timestamp_id, incident_timestamp,
\* value]; incident_timestamp is the definition carried by the export (or
\* Undefined).  A mapped value is [incident_timestamp_id, value].
RECURSIVE mapTimestampsWithContext(_, _, _)
mapTimestampsWithContext(sourceTimestamps, sourceTimestampDefs, targetTimestamps) ==
  IF sourceTimestamps = << >> THEN [value |-> << >>, warnings |-> << >>]
  ELSE
    LET n == Len(sourceTimestamps)
        rest == mapTimestampsWithContext(SubSeq(sourceTimestamps, 1, n - 1),
                                         sourceTimestampDefs, targetTimestamps)
        sourceTs == sourceTimestamps[n]
        sourceDef == IF sourceTs.incident_timestamp # Undefined THEN sourceTs.incident_timestamp
                     ELSE MapGet(sourceTimestampDefs, sourceTs.incident_timestamp_id)
    IN IF sourceDef = Undefined
       THEN [rest EXCEPT !.warnings = Append(@, "Source timestamp definition not found")]
       ELSE
         LET SameName(t) == toLowerCase(t.name) = toLowerCase(sourceDef.name)
             i == FirstIndex({k \in 1..Len(targetTimestamps) : SameName(targetTimestamps[k])})
         IN IF i = 0
            THEN [rest EXCEPT !.warnings = Append(@, "Timestamp not found in target")]
            ELSE [rest EXCEPT !.value = Append(@, [incident_timestamp_id |-> targetTimestamps[i].id,
                                                    value |-> sourceTs.value])]

\* A mapSelectFieldValue that leaves out the options it does not find.
RECURSIVE mapSelectFieldValueSilent(_, _, _)
mapSelectFieldValueSilent(sourceValues, sourceField, targetField) ==
  IF sourceValues = << >> THEN [value |-> << >>, warnings |-> << >>]
  ELSE
    LET n == Len(sourceValues)
        rest == mapSelectFieldValueSilent(SubSeq(sourceValues, 1, n - 1), sourceField, targetField)
        sourceName == sourceValues[n].name
        SameName(o) == toLowerCase(o.value) = toLowerCase(sourceName)
        i == FirstIndex({k \in 1..Len(targetField.options) : SameName(targetField.options[k])})
    IN IF sourceName = "" \/ i = 0 THEN rest
       ELSE [rest EXCEPT !.value = Append(@, [catalog_entry_id |-> targetField.options[i].id])]

\* A value entry of a custom field is [name, text]: name is
\* value_catalog_entry?.name ("" when the entry has none), text what a text
\* entry holds.  A mapped select entry is [catalog_entry_id] (the value_link).
\* The options of a field that has none are << >> (targetField.options || []).
RECURSIVE mapSelectFieldValue(_, _, _)
mapSelectFieldValue(sourceValues, sourceField, targetField) ==
  IF sourceValues = << >> THEN [value |-> << >>, warnings |-> << >>]
  ELSE
    LET n == Len(sourceValues)
        rest == mapSelectFieldValue(SubSeq(sourceValues, 1, n - 1), sourceField, targetField)
        sourceName == sourceValues[n].name
        SameName(o) == toLowerCase(o.value) = toLowerCase(sourceName)
        i == FirstIndex({k \in 1..Len(targetField.options) : SameName(targetField.options[k])})
    IN IF sourceName = ""
       THEN [rest EXCEPT !.warnings = Append(@, "Value entry missing name in field " \o sourceField.name)]
       ELSE IF i # 0
       THEN [rest EXCEPT !.value = Append(@, [catalog_entry_id |-> targetField.options[i].id])]
       ELSE [rest EXCEPT !.warnings =
               Append(@, "Option " \o sourceName \o " in field " \o sourceField.name
                           \o " not found in target")]

\* A source custom field value is [custom_field_id, custom_field, values];
\* custom_field is the definition carried by the export (or Undefined), and
\* values is << >> when the export has none (absent or empty).  A mapped
\* value is [custom_field_id, values].
RECURSIVE mapCustomFieldValues(_, _, _)
mapCustomFieldValues(sourceValues, sourceFields, targetFields) ==
  IF sourceValues = << >> THEN [value |-> << >>, warnings |-> << >>]
  ELSE
    LET n == Len(sourceValues)
        rest == mapCustomFieldValues(SubSeq(sourceValues, 1, n - 1), sourceFields, targetFields)
        sourceValue == sourceValues[n]
        sourceField == IF sourceValue.custom_field # Undefined THEN sourceValue.custom_field
                       ELSE MapGet(sourceFields, sourceValue.custom_field_id)
    IN IF sourceField = Undefined
       THEN [rest EXCEPT !.warnings = Append(@, "Source custom field definition not found")]
       ELSE
         LET SameName(f) == toLowerCase(f.name) = toLowerCase(sourceField.name)
             i == FirstIndex({k \in 1..Len(targetFields) : SameName(targetFields[k])})
         IN IF i = 0
            THEN [rest EXCEPT !.warnings = Append(@, "Custom field not found in target")]
            ELSE
              LET targetField == targetFields[i]
              IN IF targetField.field_type \in {"single_select", "multi_select"}
                 THEN LET mappedValue == mapSelectFieldValue(sourceValue.values, sourceField,
                                                             targetField)
                          pushed == IF mappedValue.value # << >>
                                    THEN Append(rest.value, [custom_field_id |-> targetField.id,
                                                             values |-> mappedValue.value])
                                    ELSE rest.value
                      IN [value |-> pushed, warnings |-> rest.warnings \o mappedValue.warnings]
                 ELSE IF sourceValue.values # << >>
                 THEN [rest EXCEPT !.value = Append(@, [custom_field_id |-> targetField.id,
                                                         values |-> sourceValue.values])]
                 ELSE rest

(***************************************************************************)
(* Incidents of the export.  A reference is the sequence of its            *)
(* characters; "I" stands for the prefix "INC-".                           *)
(***************************************************************************)

\* reference.match(/\d+$/): the longest suffix made of digits.
RECURSIVE TrailingDigits(_)
TrailingDigits(reference) ==
  IF reference = << >> \/ reference[Len(reference)] \notin {"0", "1", "2", "3", "4", "5", "6", "7", "8", "9"} THEN << >>
  ELSE Append(TrailingDigits(SubSeq(reference, 1, Len(reference) - 1)), reference[Len(reference)])

\* parseInt(digits, 10)
RECURSIVE parseInt(_)
parseInt(digits) ==
  IF digits = << >> THEN 0
  ELSE 10 * parseInt(SubSeq(digits, 1, Len(digits) - 1)) + (CHOOSE n \in 0..9 : ToString(n) = digits[Len(digits)])

NoExternalId == -1
\* retrospectiveOptions.external_id as createIncident sets it (absent: NoExternalId).
ExternalIdOf(reference, skipExternalId) ==
  IF ~skipExternalId /\ TrailingDigits(reference) # << >>
  THEN parseInt(TrailingDigits(reference))
  ELSE NoExternalId

Ann == [id |-> "srcAnn", email |-> "Ann@x.io", slack_user_id |-> ""]
ReporterAssignment ==
  [incident_role_id |-> "srcRoR", role |-> [id |-> "srcRoR", name |-> "Reporter"], assignee |-> Ann]

\* The incidents a bundle stream is drawn from.
Incidents ==
  { \* complete incident, private-only type, reporter and lead, Jira ticket
    [id |-> "s1", reference |-> <<"I", "1">>, visibility |-> "public",
     severity |-> [id |-> "x1", name |-> "MAJOR", rank |-> 2],
     status |-> [id |-> "x2", name |-> "Closed", category |-> "closed"],
     incident_type |-> [id |-> "x3", name |-> "SECURITY"],
     incident_role_assignments |-> << ReporterAssignment,
                                      [incident_role_id |-> "srcRoL",
                                       role |-> [id |-> "srcRoL", name |-> "LEAD"],
                                       assignee |-> Ann] >>,
     jira |-> TRUE],
    \* another source incident carrying the reference of s1; its status is
    \* one that no target status matches by name or by category
    [id |-> "s2", reference |-> <<"I", "1">>, visibility |-> "private",
     severity |-> [id |-> "x5", name |-> "P1", rank |-> 1],
     status |-> [id |-> "x6", name |-> "Done", category |-> "paused"],
     incident_type |-> Undefined,
     incident_role_assignments |-> << ReporterAssignment >>,
     jira |-> FALSE],
    \* the incident s1 as another export has it: no severity, and a
    \* reference without trailing digits (no external id)
    [id |-> "s1", reference |-> <<"I">>, visibility |-> "private",
     severity |-> Undefined,
     status |-> [id |-> "x2", name |-> "Closed", category |-> "closed"],
     incident_type |-> Undefined,
     incident_role_assignments |-> << >>,
     jira |-> FALSE] }

SourceIds == {i.id : i \in Incidents}

\* Lines of the input file that are not an Incident Bundle: a line of white
\* space; a line that JSON.parse rejects, or whose value has no incident
\* (normalizeIncident throws on it); and a line that parses to an object
\* whose incident has none of the fields of an incident (absent fields: NoId,
\* the empty sequence, Undefined).
Blank == [id |-> "blank line"]
Unparseable == [id |-> "unparseable line"]
Malformed ==
  [id |-> NoId, reference |-> << >>, visibility |-> "",
   severity |-> Undefined, status |-> Undefined, incident_type |-> Undefined,
   incident_role_assignments |-> << >>, jira |-> FALSE]

\* for await (const bundle of readJsonl(inputFile)) { normalizeIncident;
\* bundles.push(bundle); if (limit && bundles.length >= limit) break }, from
\* line i on with the bundles read so far: whether it threw, and the bundles
\* (as indexes of their lines).  limit is 0 when the option is absent.
RECURSIVE ReadBundles(_, _, _, _)
ReadBundles(lines, i, bundles, limit) ==
  IF i > Len(lines) THEN [threw |-> FALSE, bundles |-> bundles]
  ELSE IF lines[i] = Blank THEN ReadBundles(lines, i + 1, bundles, limit)
  ELSE IF lines[i] = Unparseable THEN [threw |-> TRUE, bundles |-> bundles]
  ELSE IF limit # 0 /\ Len(bundles) + 1 >= limit
  THEN [threw |-> FALSE, bundles |-> Append(bundles, i)]
  ELSE ReadBundles(lines, i + 1, Append(bundles, i), limit)

\* Input files that may hold lines of every kind.

(***************************************************************************)
(* State.                                                                  *)
(***************************************************************************)
VARIABLES
  stream,      \* the bundle stream (input file), the same for every run
  remote,      \* the target system: its incidents
  stateFile,   \* persisted dedup state: source id -> target id (NoId: absent)
  run,         \* number of runs started
  phase,       \* "idle" (no run in progress), "running", "finished", or how
               \* import() was rejected before it started its workers
  opts,        \* options of the current run
  refMap,      \* targetIncidentsByRef, built once at the start of the run
  targetContext, \* the Mapping Context of the run, Undefined until it is built
  state,       \* in-memory dedup state (state.mapping)
  queue,       \* indexes (into stream) of the bundles not yet taken
  results,     \* the results collection
  pc,          \* per worker: the await it is suspended at
  res,         \* per worker: the ImportResult under construction
  inflight,    \* per worker: the remote request it awaits
  calls,       \* mutating requests issued in the current run
  writes,      \* writeState calls of the current run
  prevStatus,  \* per bundle: its status in the last run that persisted state
  dryReport,   \* what the dry run just before the current run saw and reported
  resolution   \* the last call of a resolver made on its own: inputs and outcome

importVars == << stream, remote, stateFile, run, phase, opts, refMap, targetContext, state,
                 queue, results, pc, res, inflight, calls, writes, prevStatus,
                 dryReport, resolution >>

\* State of the shared API client (IncidentIoApiClient) and of the callers
\* that have a request in progress.  Times are in ms.
VARIABLES
  sinceLastRequest, \* Date.now() - this.lastRequestTime, counted up to minRequestInterval
  rpc,              \* per caller: where it is in request()
  attempt,          \* per caller: the loop variable of request()
  sleepLeft,        \* per caller: what is left of its pending sleep()
  lastError,        \* per caller: the lastError variable of request()
  issued,           \* number of request() calls made
  response,         \* per caller: how the last fetch of its request settled
  fetches,          \* per caller: fetch calls made for its request
  minGap            \* shortest time between two consecutive requests sent so far,
                    \* counted up to minRequestInterval

clientVars == << sinceLastRequest, rpc, attempt, sleepLeft, lastError, issued, response,
                 fetches, minGap >>

vars == << importVars, clientVars >>

Workers == 1..MaxWorkers
NoRequest == [kind |-> "none"]
NoResult == [status |-> "none"]

\* Map.get(reference) on targetIncidentsByRef, a set of [reference, id] entries.
RefMapGet(map, reference) ==
  IF \E e \in map : e.reference = reference
  THEN (CHOOSE e \in map : e.reference = reference).id
  ELSE NoId

\* buildIncidentReferenceMap: map.set(incident.reference, incident) over the listing.
buildIncidentReferenceMap(incidents) ==
  { [reference |-> r, id |-> (CHOOSE t \in incidents : t.reference = r).id] :
      r \in {t.reference : t \in incidents} }

\* A key that also depends on the run that builds the request.
IdempotencyKeyPerRun(incident) == "retro-import:" \o incident.id \o ":" \o ToString(run)

\* A key derived from the number of the incident's reference.
IdempotencyKeyByReference(incident) ==
  "retro-import:" \o ToString(ExternalIdOf(incident.reference, FALSE))

\* idempotency_key: `retro-import:${incident.id}`
IdempotencyKey(incident) == "retro-import:" \o incident.id

(***************************************************************************)
(* importIncident, updateIncident, createIncident: request construction.   *)
(***************************************************************************)

\* "Map all fields" of importIncident; no source context is supplied.
MapAllFields(incident, ctx) ==
  [ severityResult |-> mapSeverity(incident.severity, ctx.severities),
    statusResult |-> mapStatus(incident.status, ctx.statuses),
    typeResult |-> mapIncidentType(incident.incident_type, ctx.types),
    roleResult |-> mapRoleAssignments(incident.incident_role_assignments, << >>,
                                      ctx.roles, ctx.users) ]

\* The mapped fields of every incident of the export, against the target
\* context of the run.
MappedFields == [incident \in Incidents |-> MapAllFields(incident, TargetContext)]

\* MapAllFields(incident, context), tabulated for the contexts a run is given.
MappedIn == [context \in {TargetContext} |-> [incident \in Incidents |-> MapAllFields(incident, context)]]

MappingWarnings(mapped) ==
  mapped.severityResult.warnings \o mapped.statusResult.warnings
    \o mapped.typeResult.warnings \o mapped.roleResult.warnings

\* Strict mode that checks the severity only.
StrictFailureSeverityOnly(options, mapped) ==
  IF options.strict /\ mapped.severityResult.value = NoId THEN "Severity mapping failed"
  ELSE ""

\* The strict-mode checks: the message thrown, "" when nothing is thrown.
StrictFailure(options, mapped) ==
  IF options.strict /\ mapped.severityResult.value = NoId THEN "Severity mapping failed"
  ELSE IF options.strict /\ mapped.statusResult.value = NoId THEN "Status mapping failed"
  ELSE ""

\* An importIncident that leaves the visibility of the source as it is.
AdjustVisibilityNever(incident, typeResult, ctx) ==
  [visibility |-> incident.visibility, warnings |-> << >>]

\* "Adjust visibility for incident types that require private".
AdjustVisibility(incident, typeResult, ctx) ==
  LET targetType == IF typeResult.value # NoId THEN MapGet(ctx.types, typeResult.value)
                    ELSE Undefined
  IN IF targetType # Undefined /\ targetType.private_incidents_only
          /\ incident.visibility = "public"
     THEN [visibility |-> "private",
           warnings |-> << "Visibility changed to private (incident type requires private)" >>]
     ELSE [visibility |-> incident.visibility, warnings |-> << >>]

\* updateIncident without its filter.
NonReporterKeepAll(assignments, ctx) == assignments

\* updateIncident: "Filter out reporter role (cannot be changed)".
NonReporter(assignments, ctx) ==
  LET Keep(r) == LET role == MapGet(ctx.roles, r.incident_role_id)
                 IN role = Undefined \/ role.role_type # "reporter"
  IN SelectSeq(assignments, Keep)

\* An updateIncident that also sends the mapped status, as createIncident does.
UpdateRequestWithStatus(targetId, idx, incident, mapped, ctx, via) ==
  LET nonReporter == NonReporter(mapped.roleResult.value, ctx)
  IN [ kind |-> "update", idx |-> idx, src |-> incident.id, target |-> targetId, via |-> via,
       severity_id |-> mapped.severityResult.value,
       incident_role_assignments |-> nonReporter,
       keys |-> {"name", "summary"}
                  \cup (IF mapped.severityResult.value # NoId THEN {"severity_id"} ELSE {})
                  \cup (IF mapped.statusResult.value # NoId THEN {"incident_status_id"} ELSE {})
                  \cup (IF nonReporter # << >> THEN {"incident_role_assignments"} ELSE {}) ]

\* The request updateIncident sends; keys is the set of fields of its
\* incident object.
UpdateRequest(targetId, idx, incident, mapped, ctx, via) ==
  LET nonReporter == NonReporter(mapped.roleResult.value, ctx)
  IN [ kind |-> "update", idx |-> idx, src |-> incident.id, target |-> targetId, via |-> via,
       severity_id |-> mapped.severityResult.value,
       incident_role_assignments |-> nonReporter,
       keys |-> {"name", "summary"}
                  \cup (IF mapped.severityResult.value # NoId THEN {"severity_id"} ELSE {})
                  \cup (IF nonReporter # << >> THEN {"incident_role_assignments"} ELSE {}) ]

\* The request createIncident sends.
CreateRequest(idx, incident, mapped, visibility, options) ==
  [ kind |-> "create", idx |-> idx, src |-> incident.id, via |-> "direct",
    idempotency_key |-> IdempotencyKey(incident),
    external_id |-> ExternalIdOf(incident.reference, options.skipExternalId),
    visibility |-> visibility,
    severity_id |-> mapped.severityResult.value,
    incident_status_id |-> mapped.statusResult.value,
    incident_type_id |-> mapped.typeResult.value,
    incident_role_assignments |-> mapped.roleResult.value ]

AttachRequest(idx, incident, targetId) ==
  [ kind |-> "attach", idx |-> idx, src |-> incident.id, target |-> targetId, via |-> "direct" ]

\* The create branch whatever the lookups found.
BranchCreateOnly(options, existingIncidentId) ==
  IF options.dryRun THEN "dry-create" ELSE "create"

\* A dry run that reports created whatever the lookups found.
BranchDryRunCreates(options, existingIncidentId) ==
  IF options.dryRun THEN "dry-create"
  ELSE (IF existingIncidentId # NoId THEN "update" ELSE "create")

\* The update branch tested before the dry-run branch.
BranchUpdateFirst(options, existingIncidentId) ==
  IF existingIncidentId # NoId THEN "update"
  ELSE IF options.dryRun THEN "dry-create" ELSE "create"

\* Which branch importIncident takes once the fields are mapped.
Branch(options, existingIncidentId) ==
  IF options.dryRun
  THEN (IF existingIncidentId # NoId THEN "dry-update" ELSE "dry-create")
  ELSE (IF existingIncidentId # NoId THEN "update" ELSE "create")

\* The id of the incident of the target that has a reference now, NoId if none.
TargetIdByReference(reference) ==
  IF \E t \in remote : t.reference = reference
  THEN (CHOOSE t \in remote : t.reference = reference).id
  ELSE NoId

\* A lookup by reference that leaves the dedup state alone.
RecordReferenceHitNever(st, id, byRef) == st

\* if (byRef) { existingIncidentId = byRef.id; state.mapping[incident.id] = existingIncidentId }
RecordReferenceHit(st, id, byRef) ==
  IF byRef # NoId THEN [st EXCEPT ![id] = byRef] ELSE st

\* importIncident on the incident Malformed: the lookups find nothing, every
\* resolver returns no value, and createIncident throws on
\* incident.reference.match before it sends anything.
importMalformedStart(idx, st, options, context) ==
  LET mapped == MapAllFields(Malformed, context)
      failure == StrictFailure(options, mapped)
      result0 == [ idx |-> idx, sourceIncidentId |-> NoId, status |-> "failed",
                   targetIncidentId |-> NoId, warnings |-> MappingWarnings(mapped),
                   error |-> "", conflict |-> FALSE,
                   inState |-> NoId, byRef |-> NoId, inTarget |-> NoId ]
  IN [ state |-> st, pc |-> "returned", request |-> NoRequest,
       res |-> IF failure # "" THEN [result0 EXCEPT !.error = failure]
               ELSE IF Branch(options, NoId) = "dry-create"
               THEN [result0 EXCEPT !.status = "created", !.targetIncidentId = "dry-run-id"]
               ELSE [result0 EXCEPT !.error = "Cannot read properties of undefined"] ]

\* importIncident from its entry to its first await (or to its return when
\* it awaits nothing): the new dedup state, the result so far, where the
\* worker is suspended and the request it sent.
importIncidentStart(idx, st, options, byRefMap, context) ==
  IF stream[idx].id = NoId THEN importMalformedStart(idx, st, options, context) ELSE
  LET incident == stream[idx]
      inState == st[incident.id]
      byRef == IF inState = NoId THEN RefMapGet(byRefMap, incident.reference) ELSE NoId
      existingIncidentId == IF inState # NoId THEN inState ELSE byRef
      st1 == RecordReferenceHit(st, incident.id, byRef)
      result0 == [ idx |-> idx, sourceIncidentId |-> incident.id, status |-> "failed",
                   targetIncidentId |-> NoId, warnings |-> << >>, error |-> "",
                   conflict |-> FALSE,
                   \* what the lookups found when the bundle was taken
                   inState |-> inState, byRef |-> byRef,
                   inTarget |-> TargetIdByReference(incident.reference) ]
  IN IF mapSeverityThrows(incident.severity, context.severities)
     THEN [ state |-> st1, pc |-> "returned", request |-> NoRequest,
            res |-> [result0 EXCEPT !.error = "Reduce of empty array with no initial value"] ]
     ELSE
       LET mapped == MappedIn[context][incident]
           failure == StrictFailure(options, mapped)
           vis == AdjustVisibility(incident, mapped.typeResult, context)
           result1 == [result0 EXCEPT !.warnings = MappingWarnings(mapped)]
           result2 == [result1 EXCEPT !.warnings = @ \o vis.warnings]
           branch == Branch(options, existingIncidentId)
       IN IF failure # ""
          THEN [ state |-> st1, pc |-> "returned", request |-> NoRequest,
                 res |-> [result1 EXCEPT !.error = failure] ]
          ELSE IF branch = "dry-update"
          THEN [ state |-> st1, pc |-> "returned", request |-> NoRequest,
                 res |-> [result2 EXCEPT !.status = "updated",
                                         !.targetIncidentId = existingIncidentId] ]
          ELSE IF branch = "dry-create"
          THEN [ state |-> st1, pc |-> "returned", request |-> NoRequest,
                 res |-> [result2 EXCEPT !.status = "created",
                                         !.targetIncidentId = "dry-run-id"] ]
          ELSE IF branch = "update"
          THEN [ state |-> st1, pc |-> "awaitUpdate", res |-> result2,
                 request |-> UpdateRequest(existingIncidentId, idx, incident, mapped,
                                           context, "direct") ]
          ELSE [ state |-> st1, pc |-> "awaitCreate", res |-> result2,
                 request |-> CreateRequest(idx, incident, mapped, vis.visibility, options) ]

(***************************************************************************)
(* The worker loop of Importer.import.  The shared memory of a run is      *)
(* handled as one record m so that the steps compose.                      *)
(***************************************************************************)
M == [ queue |-> queue, state |-> state, results |-> results, pc |-> pc, res |-> res,
       inflight |-> inflight, calls |-> calls, targetContext |-> targetContext ]

Commit(next) ==
  \E m \in {next} :
    /\ queue' = m.queue
    /\ state' = m.state
    /\ results' = m.results
    /\ pc' = m.pc
    /\ res' = m.res
    /\ inflight' = m.inflight
    /\ calls' = m.calls
    /\ targetContext' = m.targetContext

\* queue[0] read without removing it.
ShiftPeek(q) == q

\* What queue.shift() leaves in the queue.
Shift(q) == Tail(q)

\* while (queue.length > 0)
LoopGuard(q) == q # << >>

\* A loop that takes the last bundle of the queue (queue.pop()).
AdvanceFromTail(m, w, options, byRefMap) ==
  IF ~LoopGuard(m.queue)
  THEN [m EXCEPT !.pc[w] = "done", !.res[w] = NoResult, !.inflight[w] = NoRequest]
  ELSE LET s == importIncidentStart(m.queue[Len(m.queue)], m.state, options, byRefMap,
                                    m.targetContext)
       IN [m EXCEPT !.queue = SubSeq(@, 1, Len(@) - 1), !.state = s.state,
                    !.pc[w] = s.pc, !.res[w] = s.res, !.inflight[w] = s.request,
                    !.calls = IF s.pc = "returned" THEN @ ELSE @ \cup {s.request}]

\* Worker w from the head of its loop to its next await.
Advance(m, w, options, byRefMap) ==
  IF ~LoopGuard(m.queue)
  THEN [m EXCEPT !.pc[w] = "done", !.res[w] = NoResult, !.inflight[w] = NoRequest]
  ELSE LET s == importIncidentStart(Head(m.queue), m.state, options, byRefMap, m.targetContext)
       IN [m EXCEPT !.queue = Shift(@), !.state = s.state,
                    !.pc[w] = s.pc, !.res[w] = s.res, !.inflight[w] = s.request,
                    !.calls = IF s.pc = "returned" THEN @ ELSE @ \cup {s.request}]

\* for (let i = 0; i < concurrency; i++) workers.push((async () => {...})()):
\* each worker runs to its first await before the next one is created.
RECURSIVE SpawnWorkers(_, _, _, _)
SpawnWorkers(m, n, options, byRefMap) ==
  IF n = 0 THEN m
  ELSE Advance(SpawnWorkers(m, n - 1, options, byRefMap), n, options, byRefMap)

\* A worker loop that never records the mapping.
RecordMappingNever(st, result) == st

\* A worker loop that records the target id of every result, whatever its status.
RecordMappingAlways(st, result) ==
  [st EXCEPT ![result.sourceIncidentId] = result.targetIncidentId]

\* state.mapping[bundle.incident.id] = result.targetIncidentId, when the
\* result is created or updated and has a target id.
RecordMapping(st, result) ==
  IF result.status \in {"created", "updated"} /\ result.targetIncidentId # NoId
  THEN [st EXCEPT ![result.sourceIncidentId] = result.targetIncidentId]
  ELSE st

\* An importIncident without its catch: the error leaves the worker's loop.
FailedUncaught(m, w, message) ==
  [m EXCEPT !.pc[w] = "crashed", !.res[w] = NoResult, !.inflight[w] = NoRequest]

\* A catch of importIncident that sets the status and drops the message.
FailedWithoutMessage(m, w, message) ==
  [m EXCEPT !.res[w].status = "failed", !.pc[w] = "returned", !.inflight[w] = NoRequest]

\* The catch of importIncident.
Failed(m, w, message) ==
  [m EXCEPT !.res[w] = [@ EXCEPT !.status = "failed", !.error = message],
            !.pc[w] = "returned", !.inflight[w] = NoRequest]

\* importIncident after createIncident returned the incident targetId.
AfterCreate(m, w, targetId) ==
  LET idx == m.res[w].idx
      incident == stream[idx]
      r == [m.res[w] EXCEPT !.status = "created", !.targetIncidentId = targetId]
  IN IF incident.jira
     THEN [m EXCEPT !.res[w] = r, !.pc[w] = "awaitAttach",
                    !.inflight[w] = AttachRequest(idx, incident, targetId),
                    !.calls = @ \cup {AttachRequest(idx, incident, targetId)}]
     ELSE [m EXCEPT !.res[w] = r, !.pc[w] = "returned", !.inflight[w] = NoRequest]

\* A catch of createIncident that empties the roles of the shared context
\* (context.roles = new Map()) instead of handing updateIncident a context
\* of its own.
OnCreateConflictClearsRoles(m, w, byRefMap) ==
  LET idx == m.res[w].idx
      incident == stream[idx]
      existing == RefMapGet(byRefMap, incident.reference)
      cleared == [m.targetContext EXCEPT !.roles = << >>]
      request == UpdateRequest(existing, idx, incident, MapAllFields(incident, m.targetContext),
                               cleared, "conflict")
      flagged == [m EXCEPT !.res[w].conflict = TRUE, !.targetContext = cleared]
  IN IF existing # NoId
     THEN [flagged EXCEPT !.res[w].warnings = Append(@, "Incident already exists, updating instead"),
                          !.pc[w] = "awaitUpdate", !.inflight[w] = request,
                          !.calls = @ \cup {request}]
     ELSE Failed(flagged, w, "External ID exists but incident not found")

\* The catch of createIncident on "external ID already exists".
OnCreateConflict(m, w, byRefMap) ==
  LET idx == m.res[w].idx
      incident == stream[idx]
      existing == RefMapGet(byRefMap, incident.reference)
      mapped == MappedIn[m.targetContext][incident]
      \* the context handed to updateIncident here is { roles: new Map() }
      request == UpdateRequest(existing, idx, incident, mapped, [roles |-> << >>], "conflict")
      flagged == [m EXCEPT !.res[w].conflict = TRUE]
  IN IF existing # NoId
     THEN [flagged EXCEPT !.res[w].warnings = Append(@, "Incident already exists, updating instead"),
                          !.pc[w] = "awaitUpdate", !.inflight[w] = request,
                          !.calls = @ \cup {request}]
     ELSE Failed(flagged, w, "External ID exists but incident not found")

\* The continuation after updateIncident returned the incident targetId.
AfterUpdate(m, w, targetId) ==
  IF m.inflight[w].via = "direct"
  THEN [m EXCEPT !.res[w] = [@ EXCEPT !.status = "updated", !.targetIncidentId = targetId],
                 !.pc[w] = "returned", !.inflight[w] = NoRequest]
  ELSE \* createIncident: state.mapping[incident.id] = updated.id; result.status = 'updated';
       \* then importIncident goes on as after any createIncident
       AfterCreate([m EXCEPT !.state[m.res[w].sourceIncidentId] = targetId,
                             !.res[w].status = "updated"], w, targetId)

\* A loop that takes its next bundle before it records the mapping.
LoopBodyEndRecordsLate(m, w, options, byRefMap) ==
  LET next == Advance([m EXCEPT !.results = Append(@, m.res[w])], w, options, byRefMap)
  IN [next EXCEPT !.state = RecordMapping(@, m.res[w])]

\* The loop body after importIncident returned: results.push(result), the
\* mapping recorded, then round the loop to the worker's next await.
LoopBodyEnd(m, w, options, byRefMap) ==
  Advance([m EXCEPT !.results = Append(@, m.res[w]),
                    !.state = RecordMapping(@, m.res[w])],
          w, options, byRefMap)

(***************************************************************************)
(* The target system, as the importer relies on it: create deduplicates on *)
(* the idempotency key and rejects an external id that is already taken.   *)
(***************************************************************************)
KeyHolders(key) == {t \in remote : t.key = key}

ExternalIdHolders(n) ==
  IF n = NoExternalId THEN {}
  ELSE {t \in remote : ExternalIdOf(t.reference, FALSE) = n}

RECURSIVE FormatNumber(_)
FormatNumber(n) ==
  IF n < 10 THEN << ToString(n) >>
  ELSE Append(FormatNumber(n \div 10), ToString(n % 10))

\* The target's own incident counter: above every number in use.
NextNumber ==
  LET used == {ExternalIdOf(t.reference, FALSE) : t \in remote} \cup {0}
  IN 1 + CHOOSE n \in used : \A k \in used : k <= n

NewTargetId == "t" \o ToString(Cardinality(remote) + 1)

\* The incident a create request produces; src records the source incident
\* the request was built for.
NewIncident(req) ==
  [ id |-> NewTargetId,
    reference |-> << "I" >> \o FormatNumber(IF req.external_id # NoExternalId
                                            THEN req.external_id ELSE NextNumber),
    key |-> req.idempotency_key,
    src |-> req.src ]

(***************************************************************************)
(* Actions.                                                                *)
(***************************************************************************)
\* No dry run to compare the current run with.
NoReport == [refMap |-> {}, report |-> << >>]

\* The report of a run, per bundle of the stream: status and target id.
Report(rs) ==
  [i \in 1..Len(stream) |->
     LET at == {k \in 1..Len(rs) : rs[k].idx = i}
     IN IF at = {} THEN [status |-> "none", targetIncidentId |-> NoId]
        ELSE [status |-> rs[CHOOSE k \in at : TRUE].status,
              targetIncidentId |-> rs[CHOOSE k \in at : TRUE].targetIncidentId]]

\* No resolver has been called on its own.
NoResolution == [call |-> "none"]

\* --strict is chosen once for a behaviour, --dry-run and --concurrency for
\* each run; --no-external-id keeps its default; limit, which the command
\* line does not set, is 0 when absent.
NoOptions ==
  [dryRun |-> FALSE, strict |-> FALSE, skipExternalId |-> FALSE, concurrency |-> 1, limit |-> 0,
   resume |-> FALSE]

Idle(m) ==
  [m EXCEPT !.queue = << >>, !.state = [s \in SourceIds |-> NoId], !.results = << >>,
            !.pc = [w \in Workers |-> "off"], !.res = [w \in Workers |-> NoResult],
            !.inflight = [w \in Workers |-> NoRequest], !.calls = {},
            !.targetContext = Undefined]

\* The client before any request: lastRequestTime is 0, ages ago.
ClientIdle ==
  /\ sinceLastRequest = MinRequestInterval
  /\ rpc = [c \in Workers |-> "idle"]
  /\ attempt = [c \in Workers |-> 0]
  /\ sleepLeft = [c \in Workers |-> 0]
  /\ lastError = [c \in Workers |-> ""]
  /\ issued = 0
  /\ response = [c \in Workers |-> "none"]
  /\ fetches = [c \in Workers |-> 0]
  /\ minGap = MinRequestInterval

\* The program before its first run on an input file drawn from streams.
InitOn(streams) ==
  /\ stream \in streams
  /\ remote = {}
  /\ stateFile = [s \in SourceIds |-> NoId]
  /\ run = 0
  /\ phase = "idle"
  /\ opts \in {[NoOptions EXCEPT !.strict = a] : a \in BOOLEAN}
  /\ refMap = {}
  /\ targetContext = Undefined
  /\ state = [s \in SourceIds |-> NoId]
  /\ queue = << >>
  /\ results = << >>
  /\ pc = [w \in Workers |-> "off"]
  /\ res = [w \in Workers |-> NoResult]
  /\ inflight = [w \in Workers |-> NoRequest]
  /\ calls = {}
  /\ writes = 0
  /\ prevStatus = [i \in 1..Len(stream) |-> "none"]
  /\ dryReport = NoReport
  /\ resolution = NoResolution
  /\ ClientIdle

\* An export lists an incident once: the bundles of a stream are distinct.
Init ==
  InitOn({q \in UNION {[1..n -> Incidents] : n \in 1..MaxBundles} :
            \A i, j \in 1..Len(q) : i # j => q[i] # q[j]})

\* An import() that loads the state file only when it is asked to resume.
LoadStateOnResumeOnly(file, resume) ==
  IF resume THEN file ELSE [s \in SourceIds |-> NoId]

\* "Load state for deduplication": the mapping of the state file when the
\* file exists, the empty mapping otherwise (the state file that does not
\* exist and the one that maps nothing are both [s \in SourceIds |-> NoId]).
\* The resume option is not read.
LoadState(file, resume) == file

\* How import() may be rejected before it starts its workers.
Rejections == {"contextFailed", "referenceMapFailed", "readFailed"}

\* An import() that logs the error and starts its workers on what it has read.
RejectedStartsWorkers(m, read, options, byRefMap) ==
  SpawnWorkers(m, options.concurrency, options, byRefMap)

\* The error leaves import(): nothing of the run is left.
Rejected(m, read, options, byRefMap) == Idle(m)

\* Importer.import up to `await Promise.all(workers)`, when nothing fails:
\* load the state file, build the context and the reference map, read the
\* bundles, start the workers.
Begin(dryRun, resume, concurrency, limit) ==
  /\ phase \in {"idle", "finished"} \cup Rejections
  /\ run < MaxRuns
  /\ LET options == [opts EXCEPT !.dryRun = dryRun, !.concurrency = concurrency,
                                  !.limit = limit, !.resume = resume]
         byRefMap == buildIncidentReferenceMap(remote)
         read == ReadBundles(stream, 1, << >>, limit)
         m0 == [Idle(M) EXCEPT !.queue = read.bundles, !.state = LoadState(stateFile, resume),
                               !.targetContext = TargetContext]
     IN /\ ~read.threw
        /\ opts' = options
        /\ refMap' = byRefMap
        /\ Commit(SpawnWorkers(m0, concurrency, options, byRefMap))
  /\ run' = run + 1
  /\ phase' = "running"
  /\ writes' = 0
  /\ dryReport' = IF phase = "finished" /\ opts.dryRun THEN dryReport ELSE NoReport

\* A run of the command line (no limit), without --resume, starts.
BeginRun ==
  /\ \E dryRun \in BOOLEAN, concurrency \in 1..MaxWorkers : Begin(dryRun, FALSE, concurrency, 0)
  /\ UNCHANGED << resolution, stream, remote, stateFile, prevStatus, clientVars >>

\* Importer.import when one of its steps before the workers throws: import()
\* is rejected with the error, the command logs it and exits.
Reject(how, dryRun, concurrency, limit) ==
  /\ phase \in {"idle", "finished"} \cup Rejections
  /\ run < MaxRuns
  /\ LET options == [opts EXCEPT !.dryRun = dryRun, !.concurrency = concurrency,
                                  !.limit = limit]
         byRefMap == buildIncidentReferenceMap(remote)
         read == ReadBundles(stream, 1, << >>, limit)
         m0 == [Idle(M) EXCEPT !.queue = read.bundles, !.state = stateFile,
                               !.targetContext = TargetContext]
     IN /\ opts' = options
        /\ Commit(Rejected(m0, read, options, byRefMap))
        /\ how = "readFailed" => read.threw
  /\ run' = run + 1
  /\ phase' = how
  /\ refMap' = {}
  /\ writes' = 0
  /\ dryReport' = NoReport

\* createIncident of worker w goes on after this.client.createIncident
\* returned or threw.
CreateResponseStep(w) ==
  /\ phase = "running"
  /\ pc[w] = "awaitCreate"
  /\ LET req == inflight[w]
         fresh == KeyHolders(req.idempotency_key) = {} /\ ExternalIdHolders(req.external_id) = {}
     IN \/ \* created
           /\ fresh
           /\ remote' = remote \cup {NewIncident(req)}
           /\ Commit(AfterCreate(M, w, NewIncident(req).id))
        \/ \* the idempotency key is known: the incident it created is returned
           /\ \E t \in KeyHolders(req.idempotency_key) : Commit(AfterCreate(M, w, t.id))
           /\ UNCHANGED remote
        \/ \* rejected: external ID already exists
           /\ ExternalIdHolders(req.external_id) # {}
           /\ Commit(OnCreateConflict(M, w, refMap))
           /\ UNCHANGED remote
        \/ \* any other failure of the request; the target may have applied it
           /\ \E applied \in BOOLEAN :
                remote' = IF applied /\ fresh THEN remote \cup {NewIncident(req)} ELSE remote
           /\ Commit(Failed(M, w, "API error"))
  /\ UNCHANGED << resolution, stream, stateFile, run, phase, opts, refMap, writes, prevStatus, dryReport >>

\* The response to a create request reaches worker w.
CreateResponse(w) == CreateResponseStep(w) /\ UNCHANGED clientVars

\* importIncident of worker w goes on after this.client.updateIncident
\* returned or threw.
UpdateResponseStep(w) ==
  /\ phase = "running"
  /\ pc[w] = "awaitUpdate"
  /\ \/ /\ \E t \in remote : t.id = inflight[w].target
        /\ Commit(AfterUpdate(M, w, inflight[w].target))
     \/ Commit(Failed(M, w, "API error"))
  /\ UNCHANGED << resolution, stream, remote, stateFile, run, phase, opts, refMap, writes,
                  prevStatus, dryReport >>

\* The response to an update request reaches worker w.
UpdateResponse(w) == UpdateResponseStep(w) /\ UNCHANGED clientVars

\* An attachment call without a try of its own: its error reaches the catch
\* of importIncident.
AttachFailedFailsBundle(m, w) == Failed(m, w, "API error")

\* catch (e) { result.warnings.push(`Failed to attach Jira ticket: ...`) }
AttachFailed(m, w) ==
  [m EXCEPT !.pc[w] = "returned", !.inflight[w] = NoRequest,
            !.res[w].warnings = Append(@, "Failed to attach Jira ticket")]

\* importIncident of worker w goes on after
\* this.client.createIncidentAttachment returned or threw.
AttachResponseStep(w) ==
  /\ phase = "running"
  /\ pc[w] = "awaitAttach"
  /\ \/ Commit([M EXCEPT !.pc[w] = "returned", !.inflight[w] = NoRequest])
     \/ Commit(AttachFailed(M, w))
  /\ UNCHANGED << resolution, stream, remote, stateFile, run, phase, opts, refMap, writes,
                  prevStatus, dryReport >>

\* The response to an attachment request reaches worker w.
AttachResponse(w) == AttachResponseStep(w) /\ UNCHANGED clientVars

\* importIncident has returned: the worker appends the result, records the
\* mapping and goes round its loop to its next await.
Resume(w) ==
  /\ phase = "running"
  /\ pc[w] = "returned"
  /\ Commit(LoopBodyEnd(M, w, opts, refMap))
  /\ UNCHANGED << resolution, stream, remote, stateFile, run, phase, opts, refMap, writes,
                  prevStatus, dryReport, clientVars >>

\* The state written in every mode.
WritesStateAlways(options) == TRUE

\* if (!dryRun) await writeState(stateFile, state)
WritesState(options) == ~options.dryRun

\* After Promise.all(workers): save the state and the report.
SaveState ==
  /\ phase = "running"
  /\ \A w \in 1..opts.concurrency : pc[w] = "done"
  /\ IF WritesState(opts)
     THEN /\ stateFile' = state
          /\ writes' = writes + 1
          /\ prevStatus' = [i \in 1..Len(stream) |-> Report(results)[i].status]
          /\ UNCHANGED dryReport
     ELSE /\ dryReport' = [refMap |-> refMap, report |-> Report(results)]
          /\ UNCHANGED << stateFile, writes, prevStatus >>
  /\ phase' = "finished"
  /\ UNCHANGED << resolution, stream, remote, run, opts, refMap, targetContext, state, queue, results, pc, res,
                  inflight, calls, clientVars >>

\* The process is killed during a run: its memory is lost, the state file
\* and the target keep what they have.
Interrupt ==
  /\ phase = "running"
  /\ phase' = "idle"
  /\ Commit(Idle(M))
  /\ opts' = [opts EXCEPT !.dryRun = FALSE, !.concurrency = 1]
  /\ refMap' = {}
  /\ dryReport' = NoReport
  /\ UNCHANGED << resolution, stream, remote, stateFile, run, writes, prevStatus, clientVars >>

\* Another process creates an incident in the target.
OtherProcessCreates ==
  /\ \E r \in {i.reference : i \in Incidents} :
       /\ TrailingDigits(r) # << >>
       /\ \A t \in remote : t.reference # r
       /\ remote' = remote \cup {[id |-> NewTargetId, reference |-> r, key |-> "", src |-> ""]}
  /\ UNCHANGED << resolution, stream, stateFile, run, phase, opts, refMap, targetContext, state, queue, results, pc, res,
                  inflight, calls, writes, prevStatus, dryReport,
                  clientVars >>

Next ==
  \/ BeginRun
  \/ \E w \in Workers : CreateResponse(w)
  \/ \E w \in Workers : UpdateResponse(w)
  \/ \E w \in Workers : AttachResponse(w)
  \/ \E w \in Workers : Resume(w)
  \/ SaveState
  \/ Interrupt
  \/ OtherProcessCreates

Spec == Init /\ [][Next]_vars

\* A worker's next step, whichever it is.
WorkerStep(w) == CreateResponse(w) \/ UpdateResponse(w) \/ AttachResponse(w) \/ Resume(w)

\* The first run of the tool on an export.
FirstRun == run = 0 /\ BeginRun

\* One run, which is not killed.
LiveNext ==
  \/ FirstRun
  \/ \E w \in Workers : WorkerStep(w)
  \/ SaveState
  \/ OtherProcessCreates

\* Every remote call eventually returns or fails and a continuation that is
\* ready eventually runs.
LiveSpec == Init /\ [][LiveNext]_vars /\ \A w \in Workers : WF_vars(WorkerStep(w))

(***************************************************************************)
(* Runs with one worker on input files that may hold lines of every kind,  *)
(* with or without a limit, where the steps of import() before the workers *)
(* may fail.                                                               *)
(***************************************************************************)
Limits == {0, 1}

\* A run with one worker starts, with or without --resume.
StartupBegin ==
  /\ \E dryRun \in BOOLEAN, resume \in BOOLEAN, limit \in Limits : Begin(dryRun, resume, 1, limit)
  /\ UNCHANGED << resolution, stream, remote, stateFile, prevStatus, clientVars >>

\* A listing call of buildMappingContext fails after its retries.
ContextFails ==
  /\ \E dryRun \in BOOLEAN, limit \in Limits : Reject("contextFailed", dryRun, 1, limit)
  /\ UNCHANGED << resolution, stream, remote, stateFile, prevStatus, clientVars >>

\* The listing of buildIncidentReferenceMap fails after its retries.
ReferenceMapFails ==
  /\ \E dryRun \in BOOLEAN, limit \in Limits : Reject("referenceMapFailed", dryRun, 1, limit)
  /\ UNCHANGED << resolution, stream, remote, stateFile, prevStatus, clientVars >>

\* The read loop throws on a line.
ReadFails ==
  /\ \E dryRun \in BOOLEAN, limit \in Limits : Reject("readFailed", dryRun, 1, limit)
  /\ UNCHANGED << resolution, stream, remote, stateFile, prevStatus, clientVars >>

StartupNext ==
  \/ StartupBegin
  \/ ContextFails
  \/ ReferenceMapFails
  \/ ReadFails
  \/ CreateResponse(1)
  \/ UpdateResponse(1)
  \/ Resume(1)
  \/ SaveState
  \/ OtherProcessCreates

\* The input file holds lines of every kind, in any order.
SpecStartup ==
  /\ InitOn(UNION {[1..n -> {i \in Incidents : ~i.jira} \cup {Blank, Unparseable, Malformed}] :
                     n \in 1..MaxBundles})
  /\ [][StartupNext]_vars

(***************************************************************************)
(* Properties of the import pipeline.                                      *)
(***************************************************************************)
ResultIndexes == 1..Len(results)
Mapped(idx) == MapAllFields(stream[idx], TargetContext)

\* C1: whatever the runs (interrupted, partially failed) and the worker
\* interleavings, the target holds at most one incident created for each
\* source incident id.
C1_AtMostOneTargetPerSource ==
  \A s \in SourceIds : Cardinality({t \in remote : t.src = s}) <= 1

\* A run that persisted nothing is followed by a run that processes the same
\* single bundle again and resolves it to the incident the first run created.
C1_Witness ==
  /\ run = 2
  /\ Len(stream) = 1
  /\ \A s \in SourceIds : stateFile[s] = NoId
  /\ \E k \in ResultIndexes, t \in remote :
       /\ results[k].status \in {"created", "updated"}
       /\ t.src = results[k].sourceIncidentId
       /\ t.id = results[k].targetIncidentId

\* C2 (as stated): once a run has persisted the dedup state, a later run over
\* the same stream reports no bundle as created.
C2_SecondRunNeverCreates ==
  (phase = "running" /\ prevStatus[1] # "none")
    => \A k \in ResultIndexes : results[k].status # "created"

\* C2 (amended): a bundle that ended created or updated in a run that
\* persisted the dedup state is never created by a later run: it ends
\* updated, or failed when its mapping or its update call fails.
C2_NoCreateOfPersisted ==
  phase = "running"
    => \A k \in ResultIndexes :
         prevStatus[results[k].idx] \in {"created", "updated"}
           => results[k].status \in {"updated", "failed"}

C2_Witness ==
  /\ phase = "running"
  /\ \E k \in ResultIndexes :
       /\ prevStatus[results[k].idx] = "created"
       /\ results[k].status = "updated"

\* C3: a bundle whose create call was rejected because the external id
\* already exists ends updated.
C3_ConflictEndsUpdated ==
  \A k \in ResultIndexes : results[k].conflict => results[k].status = "updated"

\* C4: no update request carries a role assignment whose target role has
\* role type reporter.
C4_NoReporterInUpdate ==
  \A c \in calls :
    c.kind = "update"
      => \A i \in 1..Len(c.incident_role_assignments) :
           MapGet(TargetContext.roles, c.incident_role_assignments[i].incident_role_id).role_type
             # "reporter"

\* An update was sent for an incident whose reporter assignment was mapped.
C4_Witness ==
  \E c \in calls :
    /\ c.kind = "update"
    /\ c.incident_role_assignments # << >>
    /\ \E i \in 1..Len(Mapped(c.idx).roleResult.value) :
         Mapped(c.idx).roleResult.value[i].incident_role_id = "roR"

\* C5: a dry run issues no create, update or attachment call and leaves the
\* target as it is.
C5_DryRunIssuesNoCall ==
  (phase \in {"running", "finished"} /\ opts.dryRun)
    => /\ calls = {}
       /\ \A w \in Workers : pc[w] \notin {"awaitCreate", "awaitUpdate", "awaitAttach"}

\* A finished dry run that reported one bundle created and one updated.
C5_Witness ==
  /\ phase = "finished"
  /\ opts.dryRun
  /\ \E k \in ResultIndexes :
       results[k].status = "created" /\ results[k].targetIncidentId = "dry-run-id"
  /\ \E k \in ResultIndexes : results[k].status = "updated"

\* Where bundle i of the stream is during a run.
InQueue(i) == {k \in 1..Len(queue) : queue[k] = i}
HeldBy(i) == {w \in Workers : res[w].status # "none" /\ res[w].idx = i}
InResults(i) == {k \in ResultIndexes : results[k].idx = i}

C7_OneResultPerBundle ==
  phase \in {"running", "finished"}
    => /\ \A i \in 1..Len(stream) :
            Cardinality(InQueue(i)) + Cardinality(HeldBy(i)) + Cardinality(InResults(i)) = 1
       /\ phase = "finished" => Len(results) = Len(stream)

\* Two workers finished a two-bundle run, the second bundle first.
C7_Witness ==
  /\ phase = "finished"
  /\ opts.concurrency = 2
  /\ Len(results) = 2
  /\ results[1].idx = 2

\* C8: the state file is written at most once in a run, only when every
\* worker is done and never in a dry run; a finished run that is not a dry
\* run has written it exactly once.
C8_StateWrittenOnce ==
  /\ writes <= 1
  /\ writes = 1 => ~opts.dryRun /\ \A w \in 1..opts.concurrency : pc[w] = "done"
  /\ phase = "finished" => writes = (IF opts.dryRun THEN 0 ELSE 1)
  /\ phase = "running" => writes = 0

C8_Witness ==
  /\ phase = "finished"
  /\ ~opts.dryRun
  /\ writes = 1
  /\ stateFile # [s \in SourceIds |-> NoId]

\* Whether a resolver left the severity or the status of bundle idx without value.
Unresolved(idx) ==
  Mapped(idx).severityResult.value = NoId \/ Mapped(idx).statusResult.value = NoId

\* C9: in strict mode a bundle whose severity or status resolves to no value
\* ends failed and no create or update call is issued for it; the run goes
\* on and every bundle gets its result.
C9_StrictFailsOneItem ==
  (phase \in {"running", "finished"} /\ opts.strict)
    => /\ \A k \in ResultIndexes : Unresolved(results[k].idx) => results[k].status = "failed"
       /\ \A c \in calls : ~Unresolved(c.idx)
       /\ \A w \in Workers :
            (res[w].status # "none" /\ Unresolved(res[w].idx)) => pc[w] = "returned"
       /\ phase = "finished" => Len(results) = Len(stream)

\* A finished strict run in which one bundle failed on its status and
\* another one was created.
C9_Witness ==
  /\ phase = "finished"
  /\ opts.strict
  /\ \E k \in ResultIndexes :
       results[k].status = "failed" /\ results[k].error = "Status mapping failed"
  /\ \E k \in ResultIndexes : results[k].status = "created"

\* The results of the bundles taken so far in the run, finished or not.
Taken == {res[w] : w \in {v \in Workers : res[v].status # "none"}}
           \cup {results[k] : k \in ResultIndexes}

\* The requests issued for bundle idx in the run.
CallsFor(idx) == {c \in calls : c.idx = idx}

\* Whether the bundle of result r is the only one of the stream with its source id.
OnlyBundleOfItsSource(r) ==
  \A i \in 1..Len(stream) : stream[i].id = r.sourceIncidentId => i = r.idx

\* C11: in a run that is not a dry run, a bundle whose source id the dedup
\* state mapped when the bundle was taken gets no create call; every call for
\* it is an update of the mapped target incident, and it is not reported
\* updated without such a call.
C11_KnownGoesToUpdate ==
  (phase \in {"running", "finished"} /\ ~opts.dryRun)
    => \A r \in Taken :
         r.inState # NoId
           => /\ \A c \in CallsFor(r.idx) : c.kind = "update" /\ c.target = r.inState
              /\ r.status = "updated" => CallsFor(r.idx) # {}

\* A second run updated the incident that the state file mapped.
C11_Witness ==
  /\ phase = "finished"
  /\ ~opts.dryRun
  /\ \E k \in ResultIndexes :
       /\ results[k].inState # NoId
       /\ results[k].status = "updated"
       /\ \E c \in CallsFor(results[k].idx) : c.kind = "update" /\ c.target = results[k].inState

\* C12 as stated: a bundle that the dedup state did not map, while the target
\* held an incident with its reference when the bundle was taken, gets only
\* update calls against that incident and the mapping is recorded.
C12_ReferenceInTargetGoesToUpdate ==
  phase \in {"running", "finished"}
    => \A r \in Taken :
         (r.inState = NoId /\ r.inTarget # NoId)
           => /\ \A c \in CallsFor(r.idx) : c.kind = "update" /\ c.target = r.inTarget
              /\ state[r.sourceIncidentId] = r.inTarget

\* C12, amended: a bundle that the dedup state did not map, while the
\* reference map built at the start of the run held its reference, gets only
\* update calls against the incident of the map, and the mapping to that
\* incident is recorded (to stay, when no other bundle carries the source id).
C12_ReferenceInMapGoesToUpdate ==
  phase \in {"running", "finished"}
    => \A r \in Taken :
         (r.inState = NoId /\ r.byRef # NoId)
           => /\ \A c \in CallsFor(r.idx) : c.kind = "update" /\ c.target = r.byRef
              /\ state[r.sourceIncidentId] # NoId
              /\ OnlyBundleOfItsSource(r) => state[r.sourceIncidentId] = r.byRef

\* A bundle unknown to the state was updated against the incident another
\* process had created under its reference.
C12_Witness ==
  /\ phase = "finished"
  /\ ~opts.dryRun
  /\ \E k \in ResultIndexes :
       /\ results[k].inState = NoId
       /\ results[k].byRef # NoId
       /\ results[k].status = "updated"
       /\ state[results[k].sourceIncidentId] = results[k].byRef
       /\ \E c \in CallsFor(results[k].idx) : c.kind = "update" /\ c.target = results[k].byRef

\* C13: in a run that is not a dry run, when a worker's bundle has ended
\* created or updated with a target id, the mapping source id -> target id is
\* in the in-memory dedup state before the worker takes its next bundle: it
\* is there when the worker reaches its next await, and a next bundle with
\* the same source id finds it.
C13_MappingRecordedBeforeNextBundle ==
  [][\A w \in Workers :
       (/\ phase = "running" /\ ~opts.dryRun
        /\ pc[w] = "returned"
        /\ results' = Append(results, res[w])
        /\ res[w].status \in {"created", "updated"}
        /\ res[w].targetIncidentId # NoId)
         => /\ state'[res[w].sourceIncidentId] = res[w].targetIncidentId
            /\ (res'[w].status # "none" /\ res'[w].sourceIncidentId = res[w].sourceIncidentId)
                 => res'[w].inState = res[w].targetIncidentId]_vars

\* In a first run that is not a dry run, a bundle was created and a later
\* bundle with the same source id found the new mapping in the state.
C13_Witness ==
  /\ phase = "running"
  /\ run = 1
  /\ ~opts.dryRun
  /\ \E k \in ResultIndexes, w \in Workers :
       /\ results[k].status = "created"
       /\ results[k].targetIncidentId # NoId
       /\ res[w].status # "none"
       /\ res[w].sourceIncidentId = results[k].sourceIncidentId
       /\ res[w].inState = results[k].targetIncidentId
       /\ state[results[k].sourceIncidentId] = results[k].targetIncidentId

\* The dedup state a step starts from: the state file when the step starts a
\* run, the memory of the run otherwise.
StateBefore == IF phase = "running" THEN state ELSE stateFile

\* C14 as stated: a bundle that ended failed left the mapping of its source
\* id as it was when the bundle was taken (no other bundle of the stream
\* having that source id).
C14_FailedLeavesMappingUnchanged ==
  phase \in {"running", "finished"}
    => \A k \in ResultIndexes :
         (results[k].status = "failed" /\ OnlyBundleOfItsSource(results[k]))
           => state[results[k].sourceIncidentId] = results[k].inState

\* Where the mapping of source id s may change in a step of a run: the
\* accumulator of worker w records a created or updated result, a bundle just
\* taken by w was found by reference, or w's create fell back to an update.
ChangedByAccumulator(s, w) ==
  /\ pc[w] = "returned"
  /\ res[w].sourceIncidentId = s
  /\ res[w].status \in {"created", "updated"}
  /\ state'[s] = res[w].targetIncidentId

ChangedByReferenceHit(s, w) ==
  /\ res'[w].status # "none"
  /\ res'[w] # res[w]
  /\ res'[w].sourceIncidentId = s
  /\ res'[w].byRef # NoId
  /\ state'[s] = res'[w].byRef

ChangedByConflictFallback(s, w) ==
  /\ pc[w] = "awaitUpdate"
  /\ inflight[w].via = "conflict"
  /\ res[w].sourceIncidentId = s
  /\ res'[w].status = "updated"
  /\ state'[s] = inflight[w].target

\* C14, amended: the mapping of a source id changes only when the accumulator
\* records a created or updated result, when a bundle is found by reference
\* as it is taken, or when a create falls back to an update; a bundle that
\* ended failed left the mapping as it was when the bundle was taken, save
\* that a bundle found by reference left the mapping to the incident found.
C14_MappingChangedOnlyWhenRecorded ==
  /\ [](phase \in {"running", "finished"}
          => \A k \in ResultIndexes :
               (results[k].status = "failed" /\ OnlyBundleOfItsSource(results[k]))
                 => state[results[k].sourceIncidentId]
                      = IF results[k].inState # NoId THEN results[k].inState
                        ELSE results[k].byRef)
  /\ [][phase' = "running"
          => \A s \in SourceIds :
               state'[s] # StateBefore[s]
                 => \E w \in Workers :
                      \/ ChangedByAccumulator(s, w)
                      \/ ChangedByReferenceHit(s, w)
                      \/ ChangedByConflictFallback(s, w)]_vars

\* One bundle failed at its create call and left its source id unmapped;
\* another was found by reference, failed, and left its source id mapped to
\* the incident found.
C14_Witness ==
  /\ phase = "finished"
  /\ ~opts.dryRun
  /\ \E k \in ResultIndexes :
       /\ results[k].status = "failed"
       /\ OnlyBundleOfItsSource(results[k])
       /\ results[k].inState = NoId /\ results[k].byRef = NoId
       /\ CallsFor(results[k].idx) # {}
       /\ state[results[k].sourceIncidentId] = NoId
  /\ \E k \in ResultIndexes :
       /\ results[k].status = "failed"
       /\ OnlyBundleOfItsSource(results[k])
       /\ results[k].inState = NoId /\ results[k].byRef # NoId
       /\ state[results[k].sourceIncidentId] = results[k].byRef

\* C15: an entry of the dedup state is never removed and never remapped: a
\* source id that the state file maps keeps its target id in the state file,
\* and a source id that the state of a run maps (as loaded or as recorded)
\* keeps its target id in the memory of the run.
C15_NeverRemovedNeverRemapped ==
  [][/\ \A s \in SourceIds : stateFile[s] # NoId => stateFile'[s] = stateFile[s]
     /\ phase' = "running"
          => \A s \in SourceIds : StateBefore[s] # NoId => state'[s] = StateBefore[s]]_vars

\* The fields updateIncident may put in the incident object of its request.
UpdatableFields ==
  {"name", "summary", "severity_id", "incident_timestamp_values", "custom_field_entries",
   "incident_role_assignments"}

\* C16: no update request carries a status, an incident type or a
\* visibility; the fields it sets are among name, summary, severity,
\* timestamps, custom fields and role assignments, none of them the reporter's.
C16_UpdateCarriesMutableFieldsOnly ==
  \A c \in calls :
    c.kind = "update"
      => /\ c.keys \cap {"incident_status_id", "incident_type_id", "visibility", "mode"} = {}
         /\ c.keys \subseteq UpdatableFields
         /\ {"name", "summary"} \subseteq c.keys
         /\ \A k \in 1..Len(c.incident_role_assignments) :
              MapGet(TargetContext.roles,
                     c.incident_role_assignments[k].incident_role_id).role_type # "reporter"

\* An update was sent for an incident whose status and type both map to the
\* target and that has a reporter and another role: the request has the
\* severity and the other role.
C16_Witness ==
  \E c \in calls :
    /\ c.kind = "update"
    /\ MappedFields[stream[c.idx]].statusResult.value # NoId
    /\ MappedFields[stream[c.idx]].typeResult.value # NoId
    /\ Len(MappedFields[stream[c.idx]].roleResult.value) > Len(c.incident_role_assignments)
    /\ c.keys = {"name", "summary", "severity_id", "incident_role_assignments"}

\* Whether a remote call of the current run failed.
RemoteCallFailed ==
  \E k \in ResultIndexes :
    \/ results[k].conflict
    \/ results[k].error \in {"API error", "External ID exists but incident not found"}
    \/ \E i \in 1..Len(results[k].warnings) :
         results[k].warnings[i] = "Failed to attach Jira ticket"

\* A real run has finished that started from the state file and the
\* reference map of the dry run just before it, and none of its remote calls
\* failed.
ComparableRuns ==
  /\ phase = "finished"
  /\ ~opts.dryRun
  /\ dryReport # NoReport
  /\ dryReport.refMap = refMap
  /\ ~RemoteCallFailed

\* C17 as stated: the dry run and the real run report the same status for
\* every bundle, and the same target id except where the dry run reports
\* created with the placeholder dry-run-id.
C17_DryRunReportsWhatRealRunDoes ==
  ComparableRuns
    => \A i \in 1..Len(stream) :
         LET dry == dryReport.report[i]
             real == Report(results)[i]
         IN /\ dry.status = real.status
            /\ \/ dry.targetIncidentId = real.targetIncidentId
               \/ dry.status = "created" /\ dry.targetIncidentId = "dry-run-id"

\* No source incident id occurs twice in the bundle stream.
NoRepeatedSourceId ==
  \A i, j \in 1..Len(stream) : stream[i].id = stream[j].id => i = j

\* C17, amended: when no source id occurs twice in the stream, the dry run
\* and the real run report the same status for every bundle, and the same
\* target id except where the dry run reports created with the placeholder
\* dry-run-id.
C17_DryRunReportsWhatRealRunDoesOnce ==
  (ComparableRuns /\ NoRepeatedSourceId)
    => \A i \in 1..Len(stream) :
         LET dry == dryReport.report[i]
             real == Report(results)[i]
         IN /\ dry.status = real.status
            /\ \/ dry.targetIncidentId = real.targetIncidentId
               \/ dry.status = "created" /\ dry.targetIncidentId = "dry-run-id"

\* A dry run and then a real run went over two bundles with different source
\* ids: one was reported created by both (with the placeholder id by the dry
\* run), the other updated by both against the incident found by reference.
C17_Witness ==
  /\ ComparableRuns
  /\ NoRepeatedSourceId
  /\ \E i, j \in 1..Len(stream) :
       /\ dryReport.report[i] = [status |-> "created", targetIncidentId |-> "dry-run-id"]
       /\ Report(results)[i].status = "created"
       /\ Report(results)[i].targetIncidentId \notin {NoId, "dry-run-id"}
       /\ dryReport.report[j].status = "updated"
       /\ Report(results)[j] = dryReport.report[j]

\* Whether the incident type a create request carries is marked
\* private-incidents-only in the target.
PrivateOnlyType(c) ==
  /\ c.incident_type_id # NoId
  /\ MapGet(TargetContext.types, c.incident_type_id).private_incidents_only

\* C26: no create request carries visibility public together with an
\* incident type marked private-incidents-only: when the source visibility is
\* public and the resolved type is private-only, the request has visibility
\* private and the result of the bundle has a warning that records the change.
C26_NoPublicRequestForPrivateOnlyType ==
  \A c \in calls :
    (c.kind = "create" /\ PrivateOnlyType(c))
      => /\ c.visibility # "public"
         /\ stream[c.idx].visibility = "public"
              => /\ c.visibility = "private"
                 /\ \A r \in Taken :
                      r.idx = c.idx
                        => \E k \in 1..Len(r.warnings) :
                             r.warnings[k]
                               = "Visibility changed to private (incident type requires private)"

\* A create request was sent for a public source incident whose type maps to
\* a private-only target type, and the bundle has its result.
C26_Witness ==
  \E c \in calls :
    /\ c.kind = "create"
    /\ PrivateOnlyType(c)
    /\ stream[c.idx].visibility = "public"
    /\ c.visibility = "private"
    /\ \E k \in ResultIndexes : results[k].idx = c.idx /\ results[k].status = "created"

\* The create requests built so far, by source incident id and key: those of
\* the current run, and those of any run that created an incident of the
\* target (the target keeps the key of the request).
CreateAttempts ==
  {[src |-> c.src, key |-> c.idempotency_key] : c \in {d \in calls : d.kind = "create"}}
    \cup {[src |-> t.src, key |-> t.key] : t \in {u \in remote : u.src # ""}}

\* C27: the idempotency key of a create request is a function of the source
\* incident id only: it is "retro-import:" followed by the id, two create
\* attempts for the same source id, in one run or in different runs, carry
\* the same key, and create attempts for different source ids carry different
\* keys.
C27_KeyIsAFunctionOfSourceId ==
  /\ \A a \in CreateAttempts : a.key = "retro-import:" \o a.src
  /\ \A a, b \in CreateAttempts : a.src = b.src <=> a.key = b.key

\* The second run sends a create request for the only bundle of the stream,
\* whose incident a first run has created: the request carries the key the
\* target has kept.
C27_Witness ==
  /\ run = 2
  /\ Len(stream) = 1
  /\ \E w \in Workers, t \in remote :
       /\ pc[w] = "awaitCreate"
       /\ t.src = inflight[w].src
       /\ t.key = inflight[w].idempotency_key

\* No worker of the run exists, nothing is in flight and the run has no result.
NoWorkerStarted ==
  /\ \A w \in Workers : pc[w] = "off" /\ inflight[w] = NoRequest /\ res[w] = NoResult
  /\ queue = << >>
  /\ results = << >>

\* C28: when a listing call of buildMappingContext fails after its retries,
\* the run ends before any worker starts: it has no Import Result, it has
\* issued no create or update call, and neither the step that rejects the
\* run nor any later step of that run writes the dedup state file or changes
\* the target.
C28_ContextFailureAbortsRun ==
  /\ [](phase = "contextFailed" => NoWorkerStarted /\ calls = {} /\ writes = 0)
  /\ [][phase' = "contextFailed"
         => /\ stateFile' = stateFile
            /\ run' # run => remote' = remote]_vars

\* A first run has imported the first bundle of a file and written the state
\* file; the listing fails in the second run, which had one more bundle to
\* import.
C28_Witness ==
  /\ phase = "contextFailed"
  /\ run = 2
  /\ Len(stream) = 2
  /\ stream[1] \in Incidents /\ stream[2] \in Incidents
  /\ stateFile[stream[1].id] # NoId
  /\ stateFile[stream[2].id] = NoId

\* C29: in a first run without limit on a file that has a line which is not
\* a valid record, the run fails before any worker starts: no create or
\* update call is issued and the dedup state file stays as it was.
C29_InvalidLineFailsRun ==
  (/\ run = 1
   /\ opts.limit = 0
   /\ \E i \in 1..Len(stream) : stream[i] \in {Unparseable, Malformed})
    => /\ phase \in Rejections
       /\ NoWorkerStarted
       /\ calls = {}
       /\ stateFile = [s \in SourceIds |-> NoId]

\* C31: a run started with --resume and the run started without it, from the
\* same state file, bundle stream and target, start their workers in the same
\* memory: the dedup state is the state file whatever the flag, the first
\* bundle is looked up in it, and the first request is the same; no later step
\* changes the flag, and what a run persists is its dedup state.
C31_ResumeFlagChangesNothing ==
  [][/\ (run' = run + 1 /\ phase' = "running")
          => LET twin == [opts' EXCEPT !.resume = ~@]
                 read == ReadBundles(stream, 1, << >>, twin.limit)
                 m0 == [Idle(M) EXCEPT !.queue = read.bundles,
                                       !.state = LoadState(stateFile, twin.resume),
                                       !.targetContext = TargetContext]
             IN /\ LoadState(stateFile, opts'.resume) = stateFile
                /\ [queue |-> queue', state |-> state', results |-> results', pc |-> pc',
                    res |-> res', inflight |-> inflight', calls |-> calls',
                    targetContext |-> targetContext']
                     = SpawnWorkers(m0, twin.concurrency, twin, buildIncidentReferenceMap(remote))
                /\ \A w \in Workers :
                     (res'[w] # NoResult /\ res'[w].sourceIncidentId # NoId)
                       => res'[w].inState = stateFile[res'[w].sourceIncidentId]
     /\ run' = run => opts'.resume = opts.resume
     /\ (phase = "running" /\ phase' = "finished" /\ stateFile' # stateFile)
          => stateFile' = state]_vars

\* A second run, started without --resume on a state file that maps the
\* first bundle, has sent an update for it to the target id of the file.
C31_Witness ==
  /\ run = 2
  /\ phase = "running"
  /\ ~opts.resume
  /\ stream[1] \in Incidents
  /\ stateFile[stream[1].id] # NoId
  /\ pc[1] = "awaitUpdate"
  /\ inflight[1].kind = "update"
  /\ inflight[1].target = stateFile[stream[1].id]

\* C32: during a run, the workers that hold a bundle are among the first
\* `concurrency` ones and hold different bundles, a worker with a call in
\* flight holds the bundle of that call, the queue is what is left of the
\* input file, in file order, after the bundles taken so far; and a worker
\* that lets go of a bundle has no call in flight for it, has put its result
\* in the results, and takes the head of the queue if it takes a bundle.
C32_OneBundlePerWorkerInFileOrder ==
  /\ [](phase = "running"
          => LET Holding == {w \in Workers : res[w] # NoResult}
                 taken == Len(stream) - Len(queue)
             IN /\ Holding \subseteq 1..opts.concurrency
                /\ \A v, w \in Holding : v # w => res[v].idx # res[w].idx
                /\ \A w \in Workers :
                     /\ inflight[w] # NoRequest => w \in Holding /\ inflight[w].idx = res[w].idx
                     /\ pc[w] \in {"off", "done"} => w \notin Holding
                /\ queue = [k \in 1..Len(queue) |-> taken + k]
                /\ {res[w].idx : w \in Holding} \cup {results[k].idx : k \in ResultIndexes}
                     = 1..taken)
  /\ [][\A w \in Workers :
          (phase = "running" /\ phase' = "running" /\ res[w] # NoResult
             /\ (res'[w] = NoResult \/ res'[w].idx # res[w].idx))
            => /\ pc[w] = "returned" /\ inflight[w] = NoRequest
               /\ results' = Append(results, res[w])
               /\ res'[w] # NoResult => res'[w].idx = Head(queue) /\ queue' = Tail(queue)]_vars

\* The only worker of a run has created the first bundle, put its result in
\* the results, and waits for the response to the request for the second one.
C32_Witness ==
  /\ phase = "running"
  /\ opts.concurrency = 1
  /\ Len(results) = 1 /\ results[1].idx = 1 /\ results[1].status = "created"
  /\ res[1] # NoResult /\ res[1].idx = 2
  /\ pc[1] \in {"awaitCreate", "awaitUpdate"}
  /\ queue = << >>

\* The writes of the dedup state that importing one bundle made, as pairs of
\* the writing statement and the target id written, read off its result r:
\* the lookup by reference, the fallback of a create to an update, and the
\* accumulator of the worker loop.
WritesOf(r) ==
  LET Unwritten == [s \in SourceIds |-> "unwritten"]
      id == r.sourceIncidentId
      lookup == IF r.inState = NoId THEN RecordReferenceHit(Unwritten, id, r.byRef) ELSE Unwritten
      recorded == RecordMapping(Unwritten, r)
  IN (IF lookup # Unwritten THEN {<< "lookup", lookup[id] >>} ELSE {})
       \cup (IF r.conflict /\ r.status # "failed" THEN {<< "conflict", r.targetIncidentId >>} ELSE {})
       \cup (IF recorded # Unwritten THEN {<< "accumulator", recorded[id] >>} ELSE {})

\* C33 as stated: in a run, whatever the interleaving of the workers, each
\* key of the dedup state mapping is written at most once.
C33_EachKeyWrittenOnce ==
  phase \in {"running", "finished"}
    => \A s \in SourceIds :
         Cardinality(UNION {{<< k, p[1] >> : p \in WritesOf(results[k])} :
                              k \in {j \in ResultIndexes : results[j].sourceIncidentId = s}}) <= 1

\* C33, amended: in a run a key of the dedup state mapping is written only
\* for a bundle that carries that source id, and a bundle writes its key at
\* most twice, both times with the same target id: once when the bundle is
\* found by reference as it is taken (or when its create falls back to an
\* update), and once more by the accumulator when its result is created or
\* updated.  A bundle that was not found by reference writes its key at most
\* once.
C33_EachBundleWritesItsKeyAtMostTwice ==
  /\ [](phase \in {"running", "finished"}
          => \A k \in ResultIndexes :
               LET W == WritesOf(results[k])
               IN /\ Cardinality(W) <= 2
                  /\ \A p, q \in W : p[2] = q[2]
                  /\ (results[k].byRef = NoId \/ results[k].inState # NoId) => Cardinality(W) <= 1
                  /\ (OnlyBundleOfItsSource(results[k]) /\ W # {})
                       => \E p \in W : state[results[k].sourceIncidentId] = p[2])
  /\ [][phase' = "running"
          => \A s \in SourceIds :
               state'[s] # StateBefore[s]
                 => \E w \in Workers :
                      \E r \in {x \in {res[w], res'[w]} : x.status # "none"} :
                        /\ r.sourceIncidentId = s
                        /\ \E p \in WritesOf(r) : p[2] = state'[s]]_vars

\* A bundle that was found by reference and then updated wrote its key twice:
\* at the lookup and at the accumulator.
C33_Witness ==
  /\ phase = "finished"
  /\ ~opts.dryRun
  /\ \E k \in ResultIndexes :
       /\ results[k].status = "updated"
       /\ WritesOf(results[k]) = {<< "lookup", results[k].byRef >>,
                                  << "accumulator", results[k].targetIncidentId >>}
       /\ state[results[k].sourceIncidentId] = results[k].byRef

\* C34: the Mapping Context is built once per run, before any worker starts,
\* and no step of processing a bundle modifies it: no worker has started
\* while the context is not built, the step that starts a run builds it, and
\* from then on every step of the run, the create and update and attach
\* responses and the fallback of a create to an update included, leaves it
\* as it was built.
C34_ContextBuiltOnceNeverModified ==
  /\ []((\E w \in Workers : pc[w] # "off") => targetContext = TargetContext)
  /\ [][/\ (run' = run + 1 /\ phase' = "running") => targetContext' = TargetContext
        /\ (phase = "running" /\ phase' \in {"running", "finished"})
             => targetContext' = targetContext
        /\ targetContext' # targetContext
             => /\ run' = run + 1 \/ phase' = "idle"
                /\ \A w \in Workers : pc[w] \in {"off", "done"} \/ pc'[w] = "off"]_vars

\* A run has finished in which one bundle was created from fields mapped
\* with the shared context and the create of another met a conflict; the
\* shared context is as it was built.
C34_Witness ==
  /\ phase = "finished"
  /\ targetContext = TargetContext
  /\ \E j, k \in ResultIndexes :
       /\ results[j].status = "created" /\ ~results[j].conflict
       /\ \E c \in calls : c.kind = "create" /\ c.idx = results[j].idx /\ c.severity_id # NoId
       /\ results[k].conflict

\* C36 as stated: in a run, whatever the interleaving of the workers and even
\* when the stream holds the same source id more than once, at most one
\* create call is issued for a source id.
C36_AtMostOneCreatePerSource ==
  \A s \in SourceIds : Cardinality({c \in calls : c.kind = "create" /\ c.src = s}) <= 1

\* C36, amended: a create call is issued for a bundle only in the step in
\* which a worker takes it, and only when the dedup state and the reference
\* map did not know it then, so that a bundle gets at most one create call in
\* a run; the create calls of the bundles that carry the same source id all
\* carry the same idempotency key.
C36_AtMostOneCreatePerBundle ==
  /\ [](\A c, d \in calls :
          (c.kind = "create" /\ d.kind = "create" /\ c.src = d.src)
            => c.idempotency_key = d.idempotency_key)
  /\ [][\A c \in calls' \ (IF run' = run THEN calls ELSE {}) :
          c.kind = "create"
            => \E w \in Workers :
                 /\ res'[w].status # "none" /\ res'[w].idx = c.idx
                 /\ res[w].status = "none" \/ run' # run \/ res[w].idx # c.idx
                 /\ c.idx \notin {results'[k].idx : k \in 1..Len(results')}
                 /\ res'[w].inState = NoId /\ res'[w].byRef = NoId
                 /\ inflight'[w] = c]_vars

\* Two bundles with the same source id were taken by two workers before
\* either result was recorded: each got a create call, with the same
\* idempotency key, and the target holds one incident for the source id.
C36_Witness ==
  /\ phase = "finished"
  /\ \E c, d \in calls :
       /\ c.kind = "create" /\ d.kind = "create"
       /\ c.src = d.src /\ c.idx # d.idx
       /\ c.idempotency_key = d.idempotency_key
       /\ Cardinality({t \in remote : t.src = c.src}) = 1
  /\ \A k \in ResultIndexes : results[k].status = "created"

\* C37: when the attachment call for the external issue reference fails
\* after the create call succeeded, the result of the bundle stays `created`
\* with the id of the new incident, without an error, and gains the warning
\* of the failed attachment; the worker loop then appends that result and
\* records source id -> target id in the dedup state.
C37_AttachFailureKeepsCreated ==
  [][\A w \in Workers :
       /\ (phase = "running" /\ pc[w] = "awaitAttach" /\ pc'[w] # "awaitAttach" /\ run' = run
             /\ phase' = "running")
            => /\ pc'[w] = "returned"
               /\ res[w].status = "created" /\ res[w].targetIncidentId = inflight[w].target
               /\ \E t \in remote : t.id = inflight[w].target
               /\ \/ res'[w] = res[w]
                  \/ res'[w] = [res[w] EXCEPT !.warnings = Append(@, "Failed to attach Jira ticket")]
               /\ res'[w].error = ""
       /\ (phase = "running" /\ pc[w] = "returned" /\ phase' = "running" /\ res'[w] # res[w]
             /\ \E i \in 1..Len(res[w].warnings) : res[w].warnings[i] = "Failed to attach Jira ticket")
            => /\ results' = Append(results, res[w])
               /\ res[w].status = "created"
               /\ state'[res[w].sourceIncidentId] = res[w].targetIncidentId
               /\ res[w].targetIncidentId # NoId]_vars

\* A run has finished and saved its state: the attachment of a created
\* incident had failed, the result is `created` with a warning and the state
\* file maps the source id to the new incident.
C37_Witness ==
  /\ phase = "finished"
  /\ writes = 1
  /\ \E k \in ResultIndexes :
       /\ results[k].status = "created"
       /\ results[k].warnings # << >>
       /\ results[k].warnings[Len(results[k].warnings)] = "Failed to attach Jira ticket"
       /\ \E c \in calls : c.kind = "attach" /\ c.idx = results[k].idx
                             /\ c.target = results[k].targetIncidentId
       /\ stateFile[results[k].sourceIncidentId] = results[k].targetIncidentId
       /\ \E t \in remote : t.id = results[k].targetIncidentId /\ t.src = results[k].sourceIncidentId

\* C38: every Import Result of the results collection is well-formed: its
\* status is created, updated or failed; a created or updated result has a
\* target incident id and no error; a failed result has an error message.
C38_ResultsAreWellFormed ==
  \A k \in ResultIndexes :
    LET r == results[k]
    IN /\ r.status \in {"created", "updated", "failed"}
       /\ r.status \in {"created", "updated"} => (r.targetIncidentId # NoId /\ r.error = "")
       /\ r.status = "failed" => r.error # ""
       /\ r.sourceIncidentId = stream[r.idx].id

\* The results of a finished run hold an updated result with its target id
\* and a result that failed at its remote call, with the error of the call.
C38_Witness ==
  /\ phase = "finished"
  /\ Len(results) = 2
  /\ \E j, k \in ResultIndexes :
       /\ results[j].status = "updated" /\ results[j].targetIncidentId # NoId
       /\ results[j].error = ""
       /\ results[k].status = "failed" /\ results[k].error = "API error"
       /\ results[k].targetIncidentId = NoId

(***************************************************************************)
(* IncidentIoApiClient.request: pacing and retries.  Several callers (the  *)
(* workers) have requests in progress in the one client.                   *)
(***************************************************************************)
MaxRetries == 1     \* the maxRetries option of the client
MaxRequests == 2    \* request() calls in one behaviour
RetryDelay == 50    \* the retryDelay option of the client

\* this.retryDelay * Math.pow(2, attempt)
RECURSIVE Pow2(_)
Pow2(n) == IF n = 0 THEN 1 ELSE 2 * Pow2(n - 1)
Backoff(a) == RetryDelay * Pow2(a)

\* this.lastRequestTime = Date.now(); fetch(url, ...) by caller c, whose
\* request has made the fetch calls counted in sofar.
Send(c, sofar) ==
  /\ minGap' = IF sinceLastRequest < minGap THEN sinceLastRequest ELSE minGap
  /\ sinceLastRequest' = 0
  /\ fetches' = [sofar EXCEPT ![c] = @ + 1]

\* A loop that makes one attempt more.
LoopEndsLate(a) == a > MaxRetries + 1

\* for (...; attempt <= this.maxRetries; ...): whether the loop is over.
LoopEnds(a) == a > MaxRetries

\* Caller c at the head of the loop of request() with loop variable a, up to
\* its next await: the loop ends (throw lastError || 'Max retries exceeded'),
\* or the caller sleeps for the rest of the minimum interval, or it stamps
\* lastRequestTime and calls fetch.
EnterLoop(c, a, sofar) ==
  /\ attempt' = [attempt EXCEPT ![c] = a]
  /\ IF LoopEnds(a)
     THEN /\ rpc' = [rpc EXCEPT ![c] = "threw"]
          /\ fetches' = sofar
          /\ UNCHANGED << sinceLastRequest, sleepLeft, minGap >>
     ELSE IF sinceLastRequest < MinRequestInterval
     THEN /\ rpc' = [rpc EXCEPT ![c] = "pacing"]
          /\ sleepLeft' = [sleepLeft EXCEPT ![c] = MinRequestInterval - sinceLastRequest]
          /\ fetches' = sofar
          /\ UNCHANGED << sinceLastRequest, minGap >>
     ELSE /\ rpc' = [rpc EXCEPT ![c] = "fetching"]
          /\ Send(c, sofar)
          /\ UNCHANGED sleepLeft

\* A caller calls request().
Request(c) ==
  /\ rpc[c] \in {"idle", "returned", "threw"}
  /\ issued < MaxRequests
  /\ issued' = issued + 1
  /\ lastError' = [lastError EXCEPT ![c] = ""]
  /\ response' = [response EXCEPT ![c] = "none"]
  /\ EnterLoop(c, 0, [fetches EXCEPT ![c] = 0])
  /\ UNCHANGED importVars

\* The pacing sleep of caller c is over: this.lastRequestTime = Date.now(); fetch(...)
PacingDone(c) ==
  /\ rpc[c] = "pacing"
  /\ sleepLeft[c] = 0
  /\ rpc' = [rpc EXCEPT ![c] = "fetching"]
  /\ Send(c, fetches)
  /\ UNCHANGED << attempt, sleepLeft, lastError, issued, response, importVars >>

\* A 4xx response that is retried like a 5xx response.
OnClientErrorRetries(c) ==
  /\ rpc' = [rpc EXCEPT ![c] = "backoff"]
  /\ sleepLeft' = [sleepLeft EXCEPT ![c] = Backoff(attempt[c])]
  /\ UNCHANGED lastError

\* "handle client errors (no retry)": throw new Error(`API error (...)`),
\* which the catch throws again.
OnClientError(c) ==
  /\ rpc' = [rpc EXCEPT ![c] = "threw"]
  /\ lastError' = [lastError EXCEPT ![c] = "API error"]
  /\ UNCHANGED sleepLeft

\* fetch settles for caller c.
Respond(c) ==
  /\ rpc[c] = "fetching"
  /\ \/ \* response.ok
        /\ response' = [response EXCEPT ![c] = "ok"]
        /\ rpc' = [rpc EXCEPT ![c] = "returned"]
        /\ UNCHANGED << sleepLeft, lastError >>
     \/ \* 429 with a retry-after header, in seconds
        /\ response' = [response EXCEPT ![c] = "429"]
        /\ rpc' = [rpc EXCEPT ![c] = "backoff"]
        /\ \E retryAfter \in {0, 1} :
             sleepLeft' = [sleepLeft EXCEPT ![c] = retryAfter * 1000]
        /\ UNCHANGED lastError
     \/ \* 429 without the header, or 5xx
        /\ \E status \in {"429", "5xx"} : response' = [response EXCEPT ![c] = status]
        /\ rpc' = [rpc EXCEPT ![c] = "backoff"]
        /\ sleepLeft' = [sleepLeft EXCEPT ![c] = Backoff(attempt[c])]
        /\ UNCHANGED lastError
     \/ \* any other status
        /\ response' = [response EXCEPT ![c] = "4xx"]
        /\ OnClientError(c)
     \/ \* fetch rejects, or the body of the response cannot be read: caught, retried
        /\ response' = [response EXCEPT ![c] = "network"]
        /\ rpc' = [rpc EXCEPT ![c] = "backoff"]
        /\ sleepLeft' = [sleepLeft EXCEPT ![c] = Backoff(attempt[c])]
        /\ lastError' = [lastError EXCEPT ![c] = "network"]
  /\ UNCHANGED << sinceLastRequest, attempt, issued, fetches, minGap, importVars >>

\* The backoff sleep of caller c is over: continue, attempt++.
BackoffDone(c) ==
  /\ rpc[c] = "backoff"
  /\ sleepLeft[c] = 0
  /\ EnterLoop(c, attempt[c] + 1, fetches)
  /\ UNCHANGED << lastError, issued, response, importVars >>

\* The sleeps that are not over yet.
PendingSleeps == {sleepLeft[c] : c \in {d \in Workers : sleepLeft[d] > 0}}

\* Time passes while callers sleep, up to the end of the shortest sleep.
Tick ==
  /\ PendingSleeps # {}
  /\ LET d == CHOOSE t \in PendingSleeps : \A u \in PendingSleeps : t <= u
     IN /\ sleepLeft' = [c \in Workers |-> IF sleepLeft[c] > 0 THEN sleepLeft[c] - d ELSE 0]
        /\ sinceLastRequest' = IF sinceLastRequest + d < MinRequestInterval
                               THEN sinceLastRequest + d ELSE MinRequestInterval
  /\ UNCHANGED << rpc, attempt, lastError, issued, response, fetches, minGap, importVars >>

\* The importer before any run and the client before any request.
IdleProgram ==
  /\ stream = << >>
  /\ remote = {}
  /\ stateFile = [s \in SourceIds |-> NoId]
  /\ run = 0
  /\ phase = "idle"
  /\ opts = NoOptions
  /\ refMap = {}
  /\ targetContext = Undefined
  /\ state = [s \in SourceIds |-> NoId]
  /\ queue = << >>
  /\ results = << >>
  /\ pc = [w \in Workers |-> "off"]
  /\ res = [w \in Workers |-> NoResult]
  /\ inflight = [w \in Workers |-> NoRequest]
  /\ calls = {}
  /\ writes = 0
  /\ prevStatus = << >>
  /\ dryReport = NoReport
  /\ ClientIdle

ClientInit ==
  /\ IdleProgram
  /\ resolution = NoResolution

\* The callers of the client model: two workers.
Callers == {1, 2}

ClientNext ==
  \/ \E c \in Callers : Request(c)
  \/ \E c \in Callers : PacingDone(c)
  \/ \E c \in Callers : Respond(c)
  \/ \E c \in Callers : BackoffDone(c)
  \/ Tick

SpecClient == ClientInit /\ [][ClientNext]_vars

\* The client when every fetch settles, every timer fires and time passes.
LiveClient ==
  /\ ClientInit
  /\ [][ClientNext]_vars
  /\ WF_vars(Tick)
  /\ \A c \in Callers :
       WF_vars(PacingDone(c)) /\ WF_vars(Respond(c)) /\ WF_vars(BackoffDone(c))

(***************************************************************************)
(* One run with one worker that is not a dry run, the remote calls of the  *)
(* worker going through request().                                         *)
(***************************************************************************)
Awaits == {"awaitCreate", "awaitUpdate", "awaitAttach"}

CallsBegin ==
  /\ FirstRun
  /\ ~opts'.dryRun
  /\ opts'.concurrency = 1

\* Worker w, suspended at a call of the client, enters request().
StartCall(w) ==
  /\ phase = "running"
  /\ pc[w] \in Awaits
  /\ rpc[w] = "idle"
  /\ Request(w)

\* Whether the step of worker w is the one taken when its call threw: the
\* catch of createIncident or of importIncident, or the warning of the
\* attachment.
CallThrew(w) ==
  IF pc[w] = "awaitAttach" THEN res'[w].warnings # res[w].warnings
  ELSE res'[w].status = "failed"

\* request() returned or threw to worker w, which goes on to its next await.
EndCall(w) ==
  /\ phase = "running"
  /\ rpc[w] \in {"returned", "threw"}
  /\ CreateResponseStep(w) \/ UpdateResponseStep(w) \/ AttachResponseStep(w)
  /\ (rpc[w] = "threw") <=> CallThrew(w)
  /\ rpc' = [rpc EXCEPT ![w] = "idle"]
  /\ UNCHANGED << sinceLastRequest, attempt, sleepLeft, lastError, issued, response, fetches,
                  minGap >>

CallsNext ==
  \/ CallsBegin
  \/ StartCall(1)
  \/ PacingDone(1)
  \/ Respond(1)
  \/ BackoffDone(1)
  \/ Tick
  \/ EndCall(1)
  \/ Resume(1)
  \/ SaveState
  \/ OtherProcessCreates

SpecCalls == Init /\ [][CallsNext]_vars

\* C10: no two requests are sent less than the minimum request interval apart.
C10_MinimumSpacing == minGap >= MinRequestInterval

\* The outcomes of a fetch after which request() tries again.
Retriable == {"429", "5xx", "network"}

ClientErrorReaches(w) ==
  /\ rpc[w] = "threw"
  /\ response[w] = "4xx"
  /\ rpc'[w] = "idle"

\* A 4xx response ends the request of caller c: no fetch follows it.
NotRetried(c) ==
  /\ response'[c] = "4xx" => rpc'[c] \in {"threw", "idle"}
  /\ (response[c] = "4xx" /\ issued' = issued) => fetches'[c] = fetches[c]

\* A worker that has appended a result failed by a 4xx response, with bundles
\* left in the queue, takes the first of them.
GoesOn(w) ==
  (/\ pc[w] = "returned" /\ response[w] = "4xx" /\ res[w].status = "failed"
   /\ queue # << >>
   /\ results' = Append(results, res[w]))
    => res'[w].status # "none" /\ res'[w].idx = Head(queue)

\* C19 as stated: a response with a 4xx status other than 429 is not
\* retried, the bundle whose call it answers gets status failed, and the
\* worker goes on with the bundles left.
C19_ClientErrorFailsTheBundle ==
  [][\A w \in Workers :
       /\ NotRetried(w)
       /\ ClientErrorReaches(w) => (pc'[w] = "returned" /\ res'[w].status = "failed")
       /\ GoesOn(w)]_vars

\* C19, amended: a response with a 4xx status other than 429 is not retried;
\* when it answers the create or the update call of a bundle, the bundle gets
\* status failed; when it answers the attachment call, the bundle keeps its
\* status and gets a warning; the worker goes on with the bundles left.
C19_ClientErrorFailsTheCall ==
  [][\A w \in Workers :
       /\ NotRetried(w)
       /\ (ClientErrorReaches(w) /\ pc[w] \in {"awaitCreate", "awaitUpdate"})
            => (pc'[w] = "returned" /\ res'[w].status = "failed")
       /\ (ClientErrorReaches(w) /\ pc[w] = "awaitAttach")
            => /\ pc'[w] = "returned"
               /\ res'[w].status = res[w].status
               /\ res'[w].warnings = Append(res[w].warnings, "Failed to attach Jira ticket")
       /\ GoesOn(w)]_vars

\* The create call of the first bundle got a 4xx response at its first
\* attempt, the bundle ended failed, and the worker has taken the second
\* bundle and is about to call the client for it.
C19_Witness ==
  /\ phase = "running"
  /\ Len(results) = 1
  /\ results[1].status = "failed" /\ results[1].error = "API error"
  /\ CallsFor(results[1].idx) # {}
  /\ response[1] = "4xx" /\ fetches[1] = 1 /\ rpc[1] = "idle"
  /\ pc[1] \in {"awaitCreate", "awaitUpdate"}
  /\ res[1].idx = 2

(***************************************************************************)
(* The entity resolvers called on their own, and the translation of one    *)
(* incident, for the source entities of the export against target contexts *)
(* that have some or none of the entities of each kind.                    *)
(***************************************************************************)
MaxTargets == 3     \* most entities of one kind in a target context drawn at large
MaxValues == 2      \* most timestamp values, custom field values or options drawn for one call

\* The lists of at most n distinct elements of a pool: the Maps of a target
\* context in every insertion order, the values one incident holds in every
\* order.
Lists(pool, n) ==
  {q \in UNION {[1..k -> pool] : k \in 0..n} :
     \A i, j \in 1..Len(q) : i # j => q[i] # q[j]}

\* The options of the select field of the target.
TeamOptions ==
  << [id |-> "optA", value |-> "Alpha", sort_key |-> 1, custom_field_id |-> "cfTeam"],
     [id |-> "optB", value |-> "Beta", sort_key |-> 2, custom_field_id |-> "cfTeam"] >>

CustomField(id, name, field_type, options) ==
  [id |-> id, name |-> name, field_type |-> field_type, options |-> options]

\* The entities target contexts are drawn from.  Two severities have the
\* same rank; two statuses have the same name but for the case, two the same
\* category; one user has no Slack id; the custom fields are a select field
\* with two options and a text field.
TargetPool ==
  [ severities |->
      { [id |-> "sevC", name |-> "Critical", rank |-> 1],
        [id |-> "sevM", name |-> "Major", rank |-> 2],
        [id |-> "sevN", name |-> "Minor", rank |-> 3],
        [id |-> "sevL", name |-> "Low", rank |-> 3] },
    statuses |->
      { [id |-> "stT", name |-> "Triage", category |-> "triage"],
        [id |-> "stC", name |-> "Closed", category |-> "closed"],
        [id |-> "stL", name |-> "CLOSED", category |-> "live"],
        [id |-> "stI", name |-> "Investigating", category |-> "live"] },
    users |->
      { [id |-> "usA", email |-> "ann@x.io", slack_user_id |-> "U1"],
        [id |-> "usB", email |-> "Bob@Y.io", slack_user_id |-> "U2"],
        [id |-> "usC", email |-> "carl@z.io", slack_user_id |-> ""] },
    timestamps |->
      { [id |-> "tsR", name |-> "Reported", rank |-> 1],
        [id |-> "tsV", name |-> "Resolved", rank |-> 2] },
    customFields |->
      { CustomField("cfTeam", "Team", "single_select", TeamOptions),
        CustomField("cfNotes", "Notes", "text", << >>) } ]

\* The source entities the resolvers are called on.
\*  - severities, statuses: absent, named as a target entity but for the
\*    case, named as none;
\*  - users: absent, known by email, known by email to one user and by Slack
\*    id to another, known by Slack id only, without email, unknown;
\*  - timestamps: named as a target timestamp but for the case, named as
\*    none, without the definition the export should carry;
\*  - options: value entries [name, text] named as a target option but for
\*    the case, named as none, and a text entry, which has no name;
\*  - fieldValues: select values whose options the target has, has in part
\*    or has not; a text value; values of a field the target has not and of a
\*    field whose definition the export does not carry; a select value and a
\*    text value that hold no value (the field is not set on the incident);
\*  - timestampDefs, fieldDefs: the source context, empty (none is supplied)
\*    or holding the definition the export does not carry.
SourceValues ==
  [ severities |->
      { Undefined,
        [id |-> "x1", name |-> "MAJOR", rank |-> 2],
        [id |-> "x5", name |-> "P1", rank |-> 1],
        [id |-> "x7", name |-> "P1", rank |-> 2],
        [id |-> "x8", name |-> "Sev", rank |-> 5] },
    statuses |->
      { Undefined,
        [id |-> "x2", name |-> "Closed", category |-> "closed"],
        [id |-> "x6", name |-> "Done", category |-> "paused"],
        [id |-> "x10", name |-> "Closed", category |-> "live"],
        [id |-> "x11", name |-> "Unknown", category |-> "live"],
        [id |-> "x12", name |-> "closed", category |-> "triage"] },
    users |->
      { Undefined,
        [id |-> "srcAnn", email |-> "Ann@x.io", slack_user_id |-> ""],
        [id |-> "srcBob", email |-> "BOB@y.io", slack_user_id |-> "U1"],
        [id |-> "srcZed", email |-> "zed@q.io", slack_user_id |-> "U1"],
        [id |-> "srcEve", email |-> "", slack_user_id |-> "U2"],
        [id |-> "srcDan", email |-> "dan@q.io", slack_user_id |-> ""],
        [id |-> "srcFay", email |-> "", slack_user_id |-> ""] },
    timestamps |->
      { [incident_timestamp_id |-> "srcTsR",
         incident_timestamp |-> [id |-> "srcTsR", name |-> "REPORTED", rank |-> 1],
         value |-> "2024-01-01T00:00:00Z"],
        [incident_timestamp_id |-> "srcTsF",
         incident_timestamp |-> [id |-> "srcTsF", name |-> "Fixed", rank |-> 2],
         value |-> "2024-01-02T00:00:00Z"],
        [incident_timestamp_id |-> "srcTsX", incident_timestamp |-> Undefined,
         value |-> "2024-01-03T00:00:00Z"] },
    timestampDefs |-> { << >>, << [id |-> "srcTsX", name |-> "Reported", rank |-> 1] >> },
    options |->
      { [name |-> "alpha", text |-> ""], [name |-> "BETA", text |-> ""],
        [name |-> "Gamma", text |-> ""], [name |-> "", text |-> "see the runbook"] },
    fieldValues |->
      LET Team == CustomField("srcCfT", "TEAM", "single_select", << >>)
          Notes == CustomField("srcCfN", "Notes", "text", << >>)
          Region == CustomField("srcCfR", "Region", "text", << >>)
          Alpha == [name |-> "alpha", text |-> ""]
          Gamma == [name |-> "Gamma", text |-> ""]
          Text == [name |-> "", text |-> "see the runbook"]
      IN { [custom_field_id |-> "srcCfT", custom_field |-> Team, values |-> << Alpha >>],
           [custom_field_id |-> "srcCfT", custom_field |-> Team, values |-> << Gamma >>],
           [custom_field_id |-> "srcCfT", custom_field |-> Team, values |-> << Alpha, Gamma >>],
           [custom_field_id |-> "srcCfT", custom_field |-> Team, values |-> << >>],
           [custom_field_id |-> "srcCfN", custom_field |-> Notes, values |-> << Text >>],
           [custom_field_id |-> "srcCfN", custom_field |-> Notes, values |-> << >>],
           [custom_field_id |-> "srcCfR", custom_field |-> Region, values |-> << Text >>],
           [custom_field_id |-> "srcCfX", custom_field |-> Undefined, values |-> << Text >>] },
    fieldDefs |-> { << >>, << CustomField("srcCfX", "Notes", "text", << >>) >> } ]

Prefixes(seq) == {SubSeq(seq, 1, n) : n \in 0..Len(seq)}

Contexts ==
  { [severities |-> sv, statuses |-> st, types |-> ty, roles |-> ro, users |-> us] :
      sv \in Prefixes(TargetContext.severities), st \in Prefixes(TargetContext.statuses),
      ty \in Prefixes(TargetContext.types), ro \in Prefixes(TargetContext.roles),
      us \in Prefixes(TargetContext.users) }

\* A call that threw instead of returning a MappingResult.
Threw == [threw |-> TRUE]

\* "Map all fields" to "Adjust visibility" of importIncident against the
\* context ctx: the status the incident is left with when the translation
\* fails, "translated" with the warnings when it goes on to the upsert.
Translate(incident, ctx, strict) ==
  IF mapSeverityThrows(incident.severity, ctx.severities)
  THEN [status |-> "failed", error |-> "Reduce of empty array with no initial value",
        warnings |-> << >>, incident_status_id |-> NoId]
  ELSE LET mapped == MapAllFields(incident, ctx)
           failure == StrictFailure([NoOptions EXCEPT !.strict = strict], mapped)
       IN IF failure # ""
          THEN [status |-> "failed", error |-> failure, warnings |-> MappingWarnings(mapped),
                incident_status_id |-> NoId]
          ELSE [status |-> "translated", error |-> "",
                warnings |-> MappingWarnings(mapped)
                               \o AdjustVisibility(incident, mapped.typeResult, ctx).warnings,
                \* what createIncident would put in createRequest.incident_status_id
                incident_status_id |-> mapped.statusResult.value]

\* A call about to be made: the resolver, its source entity, the target
\* entities it is given, and for importIncident the --strict option.
\* const normalizeKey = (s) => s.trim().toLowerCase(), on the names the
\* catalog entries of the model use.
normalizeKey(s) ==
  LET trim == CASE s = " alpha " -> "alpha"
                [] s = " Beta" -> "Beta"
                [] s = " " -> ""
                [] OTHER -> s
  IN toLowerCase(trim)

\* a.localeCompare(b) on identifiers written with digits and capital letters,
\* each the sequence of its characters: the sign of the first difference,
\* digits before letters, a proper prefix before the longer identifier.
RECURSIVE localeCompare(_, _)
localeCompare(a, b) ==
  LET Collation(c) == CASE c = "0" -> 0 [] c = "1" -> 1 [] c = "A" -> 2 [] OTHER -> 3
  IN IF a = << >> /\ b = << >> THEN 0
     ELSE IF a = << >> THEN -1
     ELSE IF b = << >> THEN 1
     ELSE IF Head(a) = Head(b) THEN localeCompare(Tail(a), Tail(b))
     ELSE IF Collation(Head(a)) < Collation(Head(b)) THEN -1 ELSE 1

\* The catalog entries a listing of one catalog type is drawn from: entries
\* with distinct identifiers that share names, aliases and external ids up
\* to case and white space; an absent external id is NoId, absent aliases
\* are the empty sequence.
CatalogEntries ==
  { [id |-> << "0", "1" >>, name |-> "Alpha", external_id |-> NoId, aliases |-> << >>],
    [id |-> << "0" >>, name |-> " alpha ", external_id |-> "beta", aliases |-> << >>],
    [id |-> << "A" >>, name |-> " Beta", external_id |-> NoId, aliases |-> << "ALPHA" >>],
    [id |-> << "0", "A" >>, name |-> "Gamma", external_id |-> "Alpha",
     aliases |-> << " ", "BETA" >>],
    [id |-> << "1" >>, name |-> "BETA", external_id |-> NoId, aliases |-> << "Gamma" >>] }

\* An index in which the first entry listed with a key keeps it.
RECURSIVE IndexKeysFirstWins(_, _, _)
IndexKeysFirstWins(keys, e, index) ==
  IF keys = << >> THEN index
  ELSE LET key == Head(keys)
       IN IndexKeysFirstWins(Tail(keys), e,
                             IF key \notin DOMAIN index THEN index @@ (key :> e) ELSE index)

\* for (const key of keys) { const existing = index.get(key);
\*   if (!existing || e.id.localeCompare(existing.id) < 0) index.set(key, e) }
RECURSIVE IndexKeys(_, _, _)
IndexKeys(keys, e, index) ==
  IF keys = << >> THEN index
  ELSE LET key == Head(keys)
       IN IndexKeys(Tail(keys), e,
                    IF key \notin DOMAIN index THEN index @@ (key :> e)
                    ELSE IF localeCompare(e.id, index[key].id) < 0
                    THEN [index EXCEPT ![key] = e]
                    ELSE index)

\* The index of one catalog type in buildMappingContext, a Map from key to
\* entry: for (const e of entries) over the listing, the keys of an entry
\* being its normalized external id (when it has one), name and aliases,
\* without the empty ones (filter(Boolean)).
RECURSIVE CatalogEntryIndex(_, _)
CatalogEntryIndex(entries, index) ==
  IF entries = << >> THEN index
  ELSE LET e == Head(entries)
           keys == SelectSeq((IF e.external_id # NoId THEN << normalizeKey(e.external_id) >>
                              ELSE << "" >>)
                               \o << normalizeKey(e.name) >>
                               \o [k \in 1..Len(e.aliases) |-> normalizeKey(e.aliases[k])],
                             LAMBDA key : key # "")
       IN CatalogEntryIndex(Tail(entries), IndexKeys(keys, e, index))

Call(name, source, targets, strict) ==
  [call |-> name, source |-> source, targets |-> targets, strict |-> strict,
   done |-> FALSE, outcome |-> Undefined]

ResolverInit ==
  /\ IdleProgram
  /\ \/ \E source \in SourceValues.severities, targets \in Lists(TargetPool.severities, MaxTargets) :
          resolution = Call("mapSeverity", source, targets, FALSE)
     \/ \E source \in SourceValues.statuses, targets \in Lists(TargetPool.statuses, MaxTargets) :
          resolution = Call("mapStatus", source, targets, FALSE)
     \/ \E source \in SourceValues.users, targets \in Lists(TargetPool.users, MaxTargets) :
          resolution = Call("mapUser", source, targets, FALSE)
     \/ \E i \in Incidents, ctx \in Contexts :
          \/ resolution = Call("mapIncidentType", i.incident_type, ctx.types, FALSE)
          \/ resolution = Call("mapRoleAssignments", i.incident_role_assignments,
                               << ctx.roles, ctx.users >>, FALSE)
     \/ \E source \in Lists(SourceValues.timestamps, MaxValues),
           defs \in SourceValues.timestampDefs,
           targets \in Lists(TargetPool.timestamps, MaxTargets) :
          resolution = Call("mapTimestampsWithContext", source, << defs, targets >>, FALSE)
     \/ \E source \in Lists(SourceValues.fieldValues, MaxValues),
           defs \in SourceValues.fieldDefs,
           targets \in Lists(TargetPool.customFields, MaxTargets) :
          resolution = Call("mapCustomFieldValues", source, << defs, targets >>, FALSE)
     \/ \E source \in Lists(SourceValues.options, MaxValues), options \in Prefixes(TeamOptions) :
          resolution = Call("mapSelectFieldValue", source,
                            << CustomField("srcCfT", "TEAM", "single_select", << >>),
                               CustomField("cfTeam", "Team", "single_select", options) >>,
                            FALSE)
     \/ \E entries \in Lists(CatalogEntries, MaxTargets) :
          resolution = Call("catalogEntriesByType", entries, << >>, FALSE)
     \* the incidents of the export, and one that has no status
     \/ \E i \in Incidents
                   \cup {[id |-> "s3", reference |-> <<"I", "3">>, visibility |-> "private",
                           severity |-> [id |-> "x1", name |-> "MAJOR", rank |-> 2],
                           status |-> Undefined,
                           incident_type |-> Undefined,
                           incident_role_assignments |-> << >>,
                           jira |-> FALSE]},
           ctx \in Contexts, strict \in BOOLEAN :
          resolution = Call("importIncident", i, ctx, strict)

\* The call returns or throws.
Returns(call, outcome) ==
  /\ resolution.call = call
  /\ ~resolution.done
  /\ resolution' = [resolution EXCEPT !.done = TRUE, !.outcome = outcome]
  /\ UNCHANGED << stream, remote, stateFile, run, phase, opts, refMap, targetContext, state, queue, results,
                  pc, res, inflight, calls, writes, prevStatus, dryReport, clientVars >>

ResolveSeverity ==
  Returns("mapSeverity",
          IF mapSeverityThrows(resolution.source, resolution.targets) THEN Threw
          ELSE mapSeverity(resolution.source, resolution.targets))

ResolveStatus ==
  Returns("mapStatus", mapStatus(resolution.source, resolution.targets))

ResolveUser ==
  Returns("mapUser", mapUser(resolution.source, resolution.targets))

ResolveIncidentType ==
  Returns("mapIncidentType", mapIncidentType(resolution.source, resolution.targets))

ResolveRoleAssignments ==
  Returns("mapRoleAssignments",
          mapRoleAssignments(resolution.source, << >>,
                             resolution.targets[1], resolution.targets[2]))

ResolveTimestamps ==
  Returns("mapTimestampsWithContext",
          mapTimestampsWithContext(resolution.source, resolution.targets[1],
                                   resolution.targets[2]))

ResolveCustomFieldValues ==
  Returns("mapCustomFieldValues",
          mapCustomFieldValues(resolution.source, resolution.targets[1], resolution.targets[2]))

ResolveSelectFieldValue ==
  Returns("mapSelectFieldValue",
          mapSelectFieldValue(resolution.source, resolution.targets[1], resolution.targets[2]))

BuildCatalogEntryIndex ==
  Returns("catalogEntriesByType", CatalogEntryIndex(resolution.source, << >>))

TranslateIncident ==
  Returns("importIncident",
          Translate(resolution.source, resolution.targets, resolution.strict))

ResolverNext ==
  \/ ResolveSeverity
  \/ ResolveStatus
  \/ ResolveUser
  \/ ResolveIncidentType
  \/ ResolveRoleAssignments
  \/ ResolveTimestamps
  \/ ResolveCustomFieldValues
  \/ ResolveSelectFieldValue
  \/ BuildCatalogEntryIndex
  \/ TranslateIncident

SpecResolvers == ResolverInit /\ [][ResolverNext]_vars

\* C20: no resolver throws, whatever the source entity (absent or present)
\* and whatever the target context, a context without any entity of the
\* kind included; and outside strict mode the translation of an incident
\* ends with warnings, never with the failure of the incident.
C20_ResolversNeverThrow ==
  /\ (resolution.call \in {"mapSeverity", "mapStatus", "mapIncidentType", "mapRoleAssignments"}
        /\ resolution.done)
       => resolution.outcome # Threw
  /\ (resolution.call = "importIncident" /\ resolution.done /\ ~resolution.strict)
       => resolution.outcome.status # "failed"

\* The call of resolver name has returned a MappingResult.
Returned(name) ==
  /\ resolution.call = name
  /\ resolution.done
  /\ resolution.outcome # Threw

\* The target entities that have the name of the source entity, ignoring case.
NamedAlike(source, targets) ==
  {k \in 1..Len(targets) : toLowerCase(targets[k].name) = toLowerCase(source.name)}

\* C21: for a source severity whose name matches no target severity ignoring
\* case (the target having at least one severity), mapSeverity returns the
\* target severity whose rank is closest to the source rank, the first one in
\* rank-sorted order on a tie, with exactly one warning, which says "mapped
\* to"; the same call made again returns the same result.
C21_ClosestRankFallback ==
  LET source == resolution.source
      targets == resolution.targets
      outcome == resolution.outcome
      Distance(k) == Abs(targets[k].rank - source.rank)
      \* target i comes before target j when the targets are sorted by rank
      \* (entities of equal rank keep their order)
      SortsBefore(i, j) ==
        \/ targets[i].rank < targets[j].rank
        \/ targets[i].rank = targets[j].rank /\ i < j
  IN (/\ resolution.call = "mapSeverity" /\ resolution.done
      /\ source # Undefined
      /\ targets # << >>
      /\ NamedAlike(source, targets) = {})
       => /\ outcome # Threw
          /\ \E i \in 1..Len(targets) :
               /\ outcome.value = targets[i].id
               /\ \A j \in 1..Len(targets) \ {i} :
                    \/ Distance(i) < Distance(j)
                    \/ Distance(i) = Distance(j) /\ SortsBefore(i, j)
               /\ outcome.warnings
                    = << "Severity not found, mapped to " \o targets[i].name \o " by rank" >>
          /\ mapSeverity(source, targets) = outcome

\* A source severity of rank 2 named as no target severity, against the
\* target severities Minor (rank 3) and Critical (rank 1), in that order: the
\* two are equally close and Critical, first by rank, is returned.
C21_Witness ==
  /\ Returned("mapSeverity")
  /\ resolution.source = [id |-> "x7", name |-> "P1", rank |-> 2]
  /\ resolution.targets = << [id |-> "sevN", name |-> "Minor", rank |-> 3],
                             [id |-> "sevC", name |-> "Critical", rank |-> 1] >>
  /\ resolution.outcome.value = "sevC"
  /\ Len(resolution.outcome.warnings) = 1

\* C22: for a source severity whose name equals the name of a target
\* severity ignoring case, mapSeverity returns the identifier of that target
\* severity with no warning; for an absent source severity it returns no
\* value and no warning.
C22_NameMatchIsSilent ==
  LET source == resolution.source
      targets == resolution.targets
      outcome == resolution.outcome
  IN (resolution.call = "mapSeverity" /\ resolution.done)
       => /\ source = Undefined => outcome = [value |-> NoId, warnings |-> << >>]
          /\ (source # Undefined /\ NamedAlike(source, targets) # {})
               => /\ outcome # Threw
                  /\ outcome.value \in {targets[k].id : k \in NamedAlike(source, targets)}
                  /\ outcome.warnings = << >>

\* The source severity MAJOR against target severities of which the second
\* is named Major: its identifier is returned, without warning.
C22_Witness ==
  /\ Returned("mapSeverity")
  /\ resolution.source = [id |-> "x1", name |-> "MAJOR", rank |-> 2]
  /\ Len(resolution.targets) >= 2
  /\ resolution.targets[2].name = "Major"
  /\ resolution.outcome = [value |-> "sevM", warnings |-> << >>]

\* The identifiers of the targets at a set of indexes.

\* C23: mapStatus applies its chain in order: a target status with the
\* source name (ignoring case) and the source category is returned with no
\* warning; failing that, one with the source name, with one warning; failing
\* that, one with the source category, with one warning; failing that, no
\* value, with exactly one warning, which says "could not be mapped".
C23_StatusFallbackChain ==
  LET source == resolution.source
      targets == resolution.targets
      outcome == resolution.outcome
      SameName == NamedAlike(source, targets)
      SameCategory == {k \in 1..Len(targets) : targets[k].category = source.category}
  IN (resolution.call = "mapStatus" /\ resolution.done /\ source # Undefined)
       => IF SameName \cap SameCategory # {}
          THEN /\ outcome.value \in {targets[k].id : k \in SameName \cap SameCategory}
               /\ outcome.warnings = << >>
          ELSE IF SameName # {}
          THEN /\ outcome.value \in {targets[k].id : k \in SameName}
               /\ Len(outcome.warnings) = 1
          ELSE IF SameCategory # {}
          THEN /\ outcome.value \in {targets[k].id : k \in SameCategory}
               /\ Len(outcome.warnings) = 1
          ELSE outcome = [value |-> NoId, warnings |-> << "Status could not be mapped" >>]

\* The source status closed of category triage, against the target statuses
\* Triage (category triage) and Closed (category closed), in that order: the
\* status of the same name is returned, not the one of the same category,
\* with one warning.
C23_Witness ==
  /\ Returned("mapStatus")
  /\ resolution.source = [id |-> "x12", name |-> "closed", category |-> "triage"]
  /\ resolution.targets = << [id |-> "stT", name |-> "Triage", category |-> "triage"],
                             [id |-> "stC", name |-> "Closed", category |-> "closed"] >>
  /\ resolution.outcome = [value |-> "stC", warnings |-> << "Status found but category differs" >>]

\* C24: for a source incident that has no status, the status put in the
\* create payload is non-empty and is a target status that counts as closed,
\* and exactly one warning of the result names the default.
C24_NoStatusDefaultsToClosed ==
  LET incident == resolution.source
      statuses == resolution.targets.statuses
      outcome == resolution.outcome
      \* a target status counts as closed by its category, or by a name that
      \* contains "closed" (of the names of the model, Closed and CLOSED)
      CountsAsClosed(status) ==
        status.category = "closed" \/ toLowerCase(status.name) = "closed"
      Naming == {k \in 1..Len(outcome.warnings) :
                   outcome.warnings[k] = "Status was null in source, defaulted to Closed"}
  IN (/\ resolution.call = "importIncident" /\ resolution.done
      /\ incident.status = Undefined
      /\ outcome.status = "translated")
       => /\ outcome.incident_status_id # NoId
          /\ \E k \in 1..Len(statuses) :
               statuses[k].id = outcome.incident_status_id /\ CountsAsClosed(statuses[k])
          /\ Cardinality(Naming) = 1

\* C25: mapUser returns the target user that has the source email, ignoring
\* case, with no warning; when no email matches, the target user that has the
\* source Slack id, with exactly one warning; otherwise no value, with exactly
\* one warning; for an absent source user, no value and no warning.
C25_UserByEmailThenSlack ==
  LET source == resolution.source
      targets == resolution.targets
      outcome == resolution.outcome
      ByEmail == IF source.email = "" THEN {}
                 ELSE {k \in 1..Len(targets) :
                         toLowerCase(targets[k].email) = toLowerCase(source.email)}
      BySlack == IF source.slack_user_id = "" THEN {}
                 ELSE {k \in 1..Len(targets) : targets[k].slack_user_id = source.slack_user_id}
  IN (resolution.call = "mapUser" /\ resolution.done)
       => IF source = Undefined
          THEN outcome = [value |-> NoId, warnings |-> << >>]
          ELSE IF ByEmail # {}
          THEN outcome.value \in {targets[k].id : k \in ByEmail} /\ outcome.warnings = << >>
          ELSE IF BySlack # {}
          THEN outcome.value \in {targets[k].id : k \in BySlack} /\ Len(outcome.warnings) = 1
          ELSE outcome.value = NoId /\ Len(outcome.warnings) = 1

\* A source user whose email no target user has and whose Slack id is that
\* of the second target user: that user is returned, with one warning.
C25_Witness ==
  /\ Returned("mapUser")
  /\ resolution.source = [id |-> "srcZed", email |-> "zed@q.io", slack_user_id |-> "U1"]
  /\ Len(resolution.targets) >= 2
  /\ resolution.targets[2].id = "usA"
  /\ resolution.outcome
       = [value |-> "usA", warnings |-> << "User mapped by Slack ID (email not matched)" >>]
\* The resolvers that map a list of source values, each value on its own.
ListResolvers ==
  {"mapRoleAssignments", "mapTimestampsWithContext", "mapCustomFieldValues",
   "mapSelectFieldValue"}

\* What is common to the claim about misses as it is stated and as it holds:
\* a list resolver returns at least one warning for each of the `counted`
\* source values it does not carry into its output; a custom field value that
\* is carried with fewer options than it has comes with at least one warning
\* for each option left out; and a fallback match comes with a warning.
MissesAreWarned(counted) ==
  LET source == resolution.source
      targets == resolution.targets
      outcome == resolution.outcome
      \* the entity returned is a fallback match: a severity of another name,
      \* a status of another name or category, a user of another email (names
      \* and emails compared ignoring case)
      FallbackUsed ==
        /\ resolution.call \in {"mapSeverity", "mapStatus", "mapUser"}
        /\ outcome # Threw
        /\ outcome.value # NoId
        /\ \E k \in {i \in 1..Len(targets) : targets[i].id = outcome.value} :
             CASE resolution.call = "mapSeverity" ->
                    toLowerCase(targets[k].name) # toLowerCase(source.name)
               [] resolution.call = "mapStatus" ->
                    \/ toLowerCase(targets[k].name) # toLowerCase(source.name)
                    \/ targets[k].category # source.category
               [] resolution.call = "mapUser" ->
                    toLowerCase(targets[k].email) # toLowerCase(source.email)
  IN resolution.done
       => /\ resolution.call \in ListResolvers
               => counted - Len(outcome.value) <= Len(outcome.warnings)
          /\ (/\ resolution.call = "mapCustomFieldValues"
               /\ Len(source) = 1
               /\ Len(outcome.value) = 1
               /\ outcome.value[1].custom_field_id = "cfTeam")
               => Len(source[1].values) - Len(outcome.value[1].values) <= Len(outcome.warnings)
          /\ FallbackUsed => Len(outcome.warnings) >= 1

\* C30 as stated: every source role assignment, timestamp value, custom
\* field value or select option that a resolver does not carry into its
\* output adds at least one warning, and every fallback match that is used
\* comes with a warning.
C30_EveryMissIsWarned ==
  MissesAreWarned(IF resolution.call \in ListResolvers THEN Len(resolution.source) ELSE 0)

\* C30 as it holds: every source role assignment, timestamp value, select
\* option, and every custom field value that holds at least one value, adds
\* at least one warning when a resolver does not carry it into its output,
\* and every fallback match that is used comes with a warning; a custom field
\* value that holds no value is never carried, and is not counted as a miss.
C30_EveryMissOfAValueIsWarned ==
  LET source == resolution.source
      WithValues == {k \in 1..Len(source) : source[k].values # << >>}
  IN /\ MissesAreWarned(IF resolution.call = "mapCustomFieldValues"
                         THEN Cardinality(WithValues)
                         ELSE IF resolution.call \in ListResolvers THEN Len(source)
                         ELSE 0)
     /\ (/\ Returned("mapCustomFieldValues")
          /\ WithValues = {})
          => resolution.outcome.value = << >>

\* A select value with two options, of which the target field has one, and
\* a value of a field the target has not: the first is carried with its one
\* option and one warning for the other option, the second is left out with
\* one warning.
C30_Witness ==
  /\ Returned("mapCustomFieldValues")
  /\ Len(resolution.source) = 2
  /\ resolution.source[1].values
       = << [name |-> "alpha", text |-> ""], [name |-> "Gamma", text |-> ""] >>
  /\ resolution.source[2].custom_field_id = "srcCfR"
  /\ resolution.outcome
       = [value |-> << [custom_field_id |-> "cfTeam",
                        values |-> << [catalog_entry_id |-> "optA"] >>] >>,
          warnings |-> << "Option Gamma in field TEAM not found in target",
                          "Custom field not found in target" >>]

\* C35: the catalog-entry index of a catalog type has exactly the non-empty
\* normalized keys (external id, name, aliases) of the entries listed, maps
\* each key to the entry with the smallest identifier among the entries that
\* carry the key, and is the same whatever the order in which the listing
\* returned the entries.
C35_IndexMapsKeyToSmallestIdentifier ==
  Returned("catalogEntriesByType")
    => LET entries == resolution.source
           index == resolution.outcome
           n == Len(entries)
           KeysOf(e) == ({normalizeKey(e.name), normalizeKey(e.external_id)}
                           \cup {normalizeKey(e.aliases[k]) : k \in 1..Len(e.aliases)}) \ {""}
       IN /\ DOMAIN index = UNION {KeysOf(entries[i]) : i \in 1..n}
          /\ \A key \in DOMAIN index :
               /\ \E i \in 1..n : index[key] = entries[i] /\ key \in KeysOf(entries[i])
               /\ \A i \in 1..n :
                    (key \in KeysOf(entries[i]) /\ entries[i] # index[key])
                      => localeCompare(index[key].id, entries[i].id) < 0
          /\ \A p \in {q \in [1..n -> 1..n] : \A i, j \in 1..n : i # j => q[i] # q[j]} :
               CatalogEntryIndex([i \in 1..n |-> entries[p[i]]], << >>) = index

\* Three entries carry the key "alpha", by name, by alias and by a name
\* written with white space; the one listed last has the smallest
\* identifier (a proper prefix of another) and is the entry of the key.
C35_Witness ==
  /\ Returned("catalogEntriesByType")
  /\ Len(resolution.source) = 3
  /\ resolution.source[1].name = "Alpha"
  /\ resolution.source[2].aliases = << "ALPHA" >>
  /\ resolution.source[3].name = " alpha "
  /\ resolution.outcome["alpha"] = resolution.source[3]
  /\ resolution.outcome["beta"] = resolution.source[3]
====
